---- MODULE Spec2Model ----
(***************************************************************************)
(* NoiseGate ingestion, deduplication and lifecycle-cleanup pipeline.      *)
(*                                                                         *)
(* The three DynamoDB tables (Source, FeedItem, StoryGroup), the FeedItem  *)
(* change stream, and the four kinds of Lambda invocation (rss-poll run,   *)
(* deleteSourceWithCleanup mutation, cleanup, stream batch) are modelled   *)
(* at the granularity of one store request per step.  Spec runs the whole  *)
(* pipeline from deployment on, one invocation at a time; the other        *)
(* specifications run one handler over the stores it can meet.             *)
(*                                                                         *)
(* Strings are sequences of one-character strings, so that normalizeTitle  *)
(* and calculateSimilarity are computed character by character.            *)
(* Times are epoch seconds (publishedAt: epoch milliseconds).              *)
(***************************************************************************)
EXTENDS Integers, Sequences, FiniteSets, TLC

(***************************************************************************)
(* Bounds of the model.                                                    *)
(***************************************************************************)
\* Number of Source records the operator has seeded.
NumSources == 2
\* FeedItem records of a store drawn as an initial state.
MaxStored == 3
\* StoryGroup records of a store drawn as an initial state.
MaxGroups == 2
\* Longest entry list one fetch of a feed returns.
MaxFeedLen == 2
\* Store requests that may fail over a behaviour (where faults are injected).
MaxFaults == 1
\* Clock advances (of one hour each) over a behaviour.
MaxTicks == 1
\* markForDeletion invocations of the cleanup handler over a behaviour.
MaxMarks == 1
\* Undelivered change records of a stream drawn as an initial state.
MaxRecords == 3
MaxDeliveries == 2

(***************************************************************************)
(* Program constants.                                                      *)
(***************************************************************************)
\* rss-poll/db.ts: TTL_DAYS
TTL_DAYS == 14
\* rss-poll/db.ts updateSourceError: MAX_CONSECUTIVE_ERRORS
MAX_CONSECUTIVE_ERRORS == 5
\* rss-poll/handler.ts: getRecentStoryGroups(7)
DaysBack == 7
\* rss-poll/dedup.ts normalizeTitle: .slice(0, 100)
TitleMaxLen == 100
\* rss-poll/dedup.ts SIMILARITY_THRESHOLD = 0.6, as the fraction 6/10
ThresholdNum == 6
ThresholdDen == 10
\* Scan page limits.  The code uses 500 (getExistingExternalIds,
\* getRecentStoryGroups), 100 (deleteMarkedFeedItems,
\* cleanupOrphanedStoryGroups) and 1 (updateSourceError); batches of 25.
\* The limits above 1 are scaled down with the tables (MaxStored, MaxGroups):
\* what matters is whether a table holds more records than one page.
ExistingIdsScanLimit == 2
RecentGroupsScanLimit == 2
DeleteScanLimit == 2
OrphanScanLimit == 2
SourceErrorScanLimit == 1
DeleteBatchSize == 1
\* backend.ts DynamoEventSource batchSize (100), scaled like the pages.
StreamBatchSize == 3
\* data-cleanup/db.ts markFeedItemsForDeletion: now + 60 * 60
ExpireSoonSeconds == 3600
SecondsPerDay == 86400
DefaultPollInterval == 15

(***************************************************************************)
(* Characters and strings.                                                 *)
(***************************************************************************)
UpperChars ==
  <<"A","B","C","D","E","F","G","H","I","J","K","L","M",
    "N","O","P","Q","R","S","T","U","V","W","X","Y","Z">>
LowerChars ==
  <<"a","b","c","d","e","f","g","h","i","j","k","l","m",
    "n","o","p","q","r","s","t","u","v","w","x","y","z">>
DigitChars == {"0","1","2","3","4","5","6","7","8","9"}
\* \s of a JavaScript regular expression (the members a title can hold)
SpaceChars == {" ", "\t", "\n"}
\* \w of a JavaScript regular expression
WordChars ==
  {UpperChars[i] : i \in 1..26} \cup {LowerChars[i] : i \in 1..26}
    \cup DigitChars \cup {"_"}

Min(a, b) == IF a <= b THEN a ELSE b

\* String.prototype.toLowerCase, one character
LowerChar(c) ==
  IF \E i \in 1..26 : UpperChars[i] = c
    THEN LowerChars[CHOOSE i \in 1..26 : UpperChars[i] = c]
    ELSE c

toLowerCase(s) == [i \in 1..Len(s) |-> LowerChar(s[i])]

\* .replace(/[^\w\s]/g, '')
RECURSIVE RemovePunctuation(_)
RemovePunctuation(s) ==
  IF s = <<>> THEN <<>>
  ELSE IF Head(s) \in WordChars \cup SpaceChars
    THEN <<Head(s)>> \o RemovePunctuation(Tail(s))
    ELSE RemovePunctuation(Tail(s))

\* .replace(/\s+/g, ' ')
RECURSIVE NormalizeWhitespace(_)
NormalizeWhitespace(s) ==
  IF s = <<>> THEN <<>>
  ELSE IF Head(s) \in SpaceChars
    THEN IF Len(s) > 1 /\ s[2] \in SpaceChars
           THEN NormalizeWhitespace(Tail(s))
           ELSE <<" ">> \o NormalizeWhitespace(Tail(s))
    ELSE <<Head(s)>> \o NormalizeWhitespace(Tail(s))

\* .split(' '): the pieces between single spaces, empty pieces included
RECURSIVE SplitFrom(_, _)
SplitFrom(s, word) ==
  IF s = <<>> THEN <<word>>
  ELSE IF Head(s) = " "
    THEN <<word>> \o SplitFrom(Tail(s), <<>>)
    ELSE SplitFrom(Tail(s), Append(word, Head(s)))

Split(s) == SplitFrom(s, <<>>)

\* .join(' ')
RECURSIVE Join(_)
Join(words) ==
  IF words = <<>> THEN <<>>
  ELSE IF Len(words) = 1 THEN Head(words)
  ELSE Head(words) \o <<" ">> \o Join(Tail(words))

\* .trim()
RECURSIVE TrimLeft(_)
TrimLeft(s) ==
  IF s # <<>> /\ Head(s) \in SpaceChars THEN TrimLeft(Tail(s)) ELSE s

RECURSIVE TrimRight(_)
TrimRight(s) ==
  IF s # <<>> /\ s[Len(s)] \in SpaceChars
    THEN TrimRight(SubSeq(s, 1, Len(s) - 1))
    ELSE s

Trim(s) == TrimRight(TrimLeft(s))

\* .slice(0, n)
Slice(s, n) == SubSeq(s, 1, Min(n, Len(s)))

\* Array.prototype.filter
FilterSeq(seq, Keep(_)) == SelectSeq(seq, Keep)

Range(seq) == {seq[i] : i \in 1..Len(seq)}

(***************************************************************************)
(* rss-poll/dedup.ts                                                       *)
(***************************************************************************)
STOP_WORDS ==
  {
    <<"t","h","e">>, <<"a">>, <<"a","n">>, <<"a","n","d">>, <<"o","r">>, <<"b","u","t">>,
    <<"i","n">>, <<"o","n">>, <<"a","t">>, <<"t","o">>, <<"f","o","r">>, <<"o","f">>,
    <<"w","i","t","h">>, <<"b","y">>, <<"f","r","o","m">>, <<"a","s">>, <<"i","s">>,
    <<"w","a","s">>, <<"a","r","e">>, <<"w","e","r","e">>, <<"b","e","e","n">>, <<"b","e">>,
    <<"h","a","v","e">>, <<"h","a","s">>, <<"h","a","d">>, <<"d","o">>, <<"d","o","e","s">>,
    <<"d","i","d">>, <<"w","i","l","l">>, <<"w","o","u","l","d">>, <<"c","o","u","l","d">>,
    <<"s","h","o","u","l","d">>, <<"m","a","y">>, <<"m","i","g","h","t">>, <<"m","u","s","t">>,
    <<"s","h","a","l","l">>, <<"c","a","n">>, <<"n","e","e","d">>, <<"t","h","i","s">>,
    <<"t","h","a","t">>, <<"t","h","e","s","e">>, <<"t","h","o","s","e">>, <<"i","t">>,
    <<"i","t","s">>, <<"t","h","e","y">>, <<"t","h","e","m">>, <<"t","h","e","i","r">>,
    <<"h","e">>, <<"s","h","e">>, <<"h","i","m">>, <<"h","e","r">>, <<"h","i","s">>,
    <<"h","e","r","s">>, <<"w","e">>, <<"u","s">>, <<"o","u","r">>, <<"y","o","u">>,
    <<"y","o","u","r">>, <<"i">>, <<"m","e">>, <<"m","y">>, <<"w","h","a","t">>,
    <<"w","h","i","c","h">>, <<"w","h","o">>, <<"w","h","o","m">>, <<"h","o","w">>,
    <<"w","h","y">>, <<"w","h","e","n">>, <<"w","h","e","r","e">>, <<"a","l","l">>,
    <<"e","a","c","h">>, <<"e","v","e","r","y">>, <<"b","o","t","h">>, <<"f","e","w">>,
    <<"m","o","r","e">>, <<"m","o","s","t">>, <<"o","t","h","e","r">>, <<"s","o","m","e">>,
    <<"s","u","c","h">>, <<"n","o">>, <<"n","o","r">>, <<"n","o","t">>, <<"o","n","l","y">>,
    <<"o","w","n">>, <<"s","a","m","e">>, <<"s","o">>, <<"t","h","a","n">>, <<"t","o","o">>,
    <<"v","e","r","y">>, <<"j","u","s","t">>, <<"a","l","s","o">>
  }

IsContentWord(word) == Len(word) > 2 /\ word \notin STOP_WORDS

normalizeTitle(title) ==
  Slice(
    Trim(
      Join(
        FilterSeq(
          Split(NormalizeWhitespace(RemovePunctuation(toLowerCase(title)))),
          IsContentWord))),
    TitleMaxLen)

IsLongWord(w) == Len(w) > 2

\* new Set(a.split(' ').filter((w) => w.length > 2))
TitleWords(a) == Range(FilterSeq(Split(a), IsLongWord))

\* The share of the first title's words found in the second
OverlapOfFirst(a, b) ==
  LET wordsA == TitleWords(a)
      wordsB == TitleWords(b)
  IN  IF wordsA = {} \/ wordsB = {}
        THEN <<0, 1>>
        ELSE <<Cardinality(wordsA \cap wordsB), Cardinality(wordsA)>>

\* calculateSimilarity as the fraction <<intersection.size, union.size>>;
\* <<0, 1>> is the 0 it returns for an empty word set.
calculateSimilarity(a, b) ==
  LET wordsA == TitleWords(a)
      wordsB == TitleWords(b)
  IN  IF wordsA = {} \/ wordsB = {}
        THEN <<0, 1>>
        ELSE <<Cardinality(wordsA \cap wordsB), Cardinality(wordsA \cup wordsB)>>

\* A threshold that the score has to exceed
AboveThreshold(p, q) == p[1] * q[2] > q[1] * p[2]

\* p > q and p >= q on fractions with positive denominators
FracGreater(p, q) == p[1] * q[2] > q[1] * p[2]
FracAtLeast(p, q) == p[1] * q[2] >= q[1] * p[2]

SIMILARITY_THRESHOLD == <<ThresholdNum, ThresholdDen>>

\* The loop of findMatchingStoryGroup from position i on: best is the index
\* of bestMatch in storyGroups (0 for null), bestScore its score.
RECURSIVE MatchLoop(_, _, _, _, _)
MatchLoop(normalizedTitle, storyGroups, i, best, bestScore) ==
  IF i > Len(storyGroups) THEN best
  ELSE LET score == calculateSimilarity(normalizedTitle, storyGroups[i].canonicalTitle)
       IN  IF FracGreater(score, bestScore) /\ FracAtLeast(score, SIMILARITY_THRESHOLD)
             THEN MatchLoop(normalizedTitle, storyGroups, i + 1, i, score)
             ELSE MatchLoop(normalizedTitle, storyGroups, i + 1, best, bestScore)

\* Index in storyGroups of the group returned, 0 when it returns null
findMatchingStoryGroup(normalizedTitle, storyGroups) ==
  MatchLoop(normalizedTitle, storyGroups, 1, 0, <<0, 1>>)

(***************************************************************************)
(* What the feeds can return.  An RSSItem is {externalId, title,           *)
(* publishedAt}; url and content play no part in ingestion decisions.      *)
(* publishedAt is in epoch milliseconds, as Date.getTime() returns it.     *)
(***************************************************************************)
\* "New Moon Found!"
TitleMoon ==
  <<"N","e","w"," ","M","o","o","n"," ","F","o","u","n","d","!">>
\* "The moon is found"
TitleMoonAgain ==
  <<"T","h","e"," ","m","o","o","n"," ","i","s"," ","f","o","u","n","d">>
\* "Cats win cup"
TitleCats ==
  <<"C","a","t","s"," ","w","i","n"," ","c","u","p">>

\* The clock value of the initial state: an entry published at time 0 has
\* reached its natural expiry (TTL_DAYS later) by then.
StartTime == TTL_DAYS * SecondsPerDay

Entries ==
  << [externalId |-> "e1", title |-> TitleMoon,
      publishedAt |-> StartTime * 1000 + 500],
     [externalId |-> "e2", title |-> TitleMoonAgain,
      publishedAt |-> StartTime * 1000 + 999],
     [externalId |-> "e3", title |-> TitleCats,
      publishedAt |-> 999] >>

EntryIds == 1..Len(Entries)

\* The story each entry reports: the first two entries the same one
EntryStory == <<1, 1, 2>>

\* normalizeTitle(item.title) of each entry
TitleNormalized == [e \in EntryIds |-> normalizeTitle(Entries[e].title)]

\* Entry lists without a repeated entry, of at most MaxFeedLen entries
FeedLists ==
  {f \in UNION {[1..n -> EntryIds] : n \in 0..MaxFeedLen} :
     \A i, j \in 1..Len(f) : f[i] = f[j] => i = j}

\* The entry lists of the whole-pipeline scenarios: at most one entry per fetch
LifecycleFeedLists == {f \in FeedLists : Len(f) <= 1}

(***************************************************************************)
(* State                                                                   *)
(***************************************************************************)
SourceIds == 1..NumSources
ItemIds == 1..(MaxStored + MaxFeedLen)
GroupIds == 1..(MaxGroups + MaxFeedLen)

\* A missing attribute is 0 (ids, numbers) or "" (externalId); ids start at 1.
Absent == 0

VARIABLES
  sourceTable,     \* Source table: id -> [isActive, consecutiveErrors, url,
                   \*   name, pollIntervalMinutes, lastPolledAt,
                   \*   lastSuccessAt, lastError, updatedAt]
  feedItemTable,   \* FeedItem table: id -> [sourceId, externalId,
                   \*   storyGroupId, deletedSourceId, expiresAt, isHidden,
                   \*   category, aiProcessedAt]; category stands for the
                   \*   attributes the classifier sets with it
  storyGroupTable, \* StoryGroup table: id -> [canonicalTitle, itemCount,
                   \*   firstSeenAt, category]
  freeItemIds,     \* FeedItem ids that can still be generated
  freeGroupIds,    \* StoryGroup ids that can still be generated
  stream,          \* FeedItem change stream records not yet delivered
  now,             \* the clock, epoch seconds
  budget,          \* what the environment may still do: [faults, ticks, marks]
  poll,            \* the rss-poll invocation
  del,             \* the invocation running markFeedItemsForDeletion
  cleanup,         \* the scheduled cleanup invocation
  strm,            \* the stream-batch invocation
  subtracted,      \* per FeedItem id: what was subtracted from itemCount on
                   \* its behalf, [eager, stream]
  failures         \* per Source id: fetches that threw since the last fetch
                   \* that returned (counted up to MAX_CONSECUTIVE_ERRORS)

vars ==
  <<sourceTable, feedItemTable, storyGroupTable, freeItemIds, freeGroupIds,
    stream, now, budget, poll, del, cleanup, strm, subtracted, failures>>

storeVars ==
  <<sourceTable, feedItemTable, storyGroupTable, freeItemIds, freeGroupIds,
    stream>>

(***************************************************************************)
(* DynamoDB                                                                *)
(***************************************************************************)
\* A table is a function from the keys of its records.  A Scan evaluates the
\* records in key order (ids are generated at random, so a new record may
\* land anywhere in that order).

\* The keys of table greater than startKey, ascending
RECURSIVE KeysAfter(_, _)
KeysAfter(keys, startKey) ==
  LET later == {k \in keys : k > startKey}
  IN  IF later = {} THEN <<>>
      ELSE LET first == CHOOSE k \in later : \A m \in later : k <= m
           IN  <<first>> \o KeysAfter(keys, first)

\* One Scan request: the keys evaluated, in order (at most limit of them;
\* limit 0 stands for no Limit), before any FilterExpression is applied
ScanEvaluated(table, startKey, limit) ==
  LET all == KeysAfter(DOMAIN table, startKey)
  IN  IF limit = 0 THEN all ELSE SubSeq(all, 1, Min(limit, Len(all)))

\* LastEvaluatedKey of that request: the last key evaluated when the Limit
\* was reached, otherwise none (Absent)
ScanLastEvaluatedKey(table, startKey, limit) ==
  LET evaluated == ScanEvaluated(table, startKey, limit)
  IN  IF limit # 0 /\ Len(evaluated) = limit THEN evaluated[limit] ELSE Absent

Put(table, key, rec) == [k \in DOMAIN table \cup {key} |->
                           IF k = key THEN rec ELSE table[k]]

Delete(table, keys) == [k \in DOMAIN table \ keys |-> table[k]]

\* A change-stream record; storyGroupId and deletedSourceId are those of the
\* OldImage for a REMOVE
StreamRecord(eventName, id, image) ==
  [eventName |-> eventName, id |-> id,
   storyGroupId |-> image.storyGroupId,
   deletedSourceId |-> image.deletedSourceId]

\* A store request may fail while the budget of faults lasts
CanFail == budget.faults > 0
Failed == [budget EXCEPT !.faults = @ - 1]

(***************************************************************************)
(* rss-poll/db.ts                                                          *)
(***************************************************************************)
\* JavaScript's (x as number) || d: d when x is missing or 0
OrDefault(x, d) == IF x = Absent THEN d ELSE x

\* getAllActiveSources: the ids returned, in scan order
getAllActiveSources ==
  FilterSeq(ScanEvaluated(sourceTable, Absent, 0),
            LAMBDA s : sourceTable[s].isActive)

\* getRecentStoryGroups(daysBack): one Scan request of at most
\* RecentGroupsScanLimit records, filtered by firstSeenAt >= cutoff
getRecentStoryGroups(daysBack) ==
  LET cutoff == now - daysBack * SecondsPerDay
      evaluated == ScanEvaluated(storyGroupTable, Absent, RecentGroupsScanLimit)
      recent == FilterSeq(evaluated,
                  LAMBDA g : /\ storyGroupTable[g].firstSeenAt # Absent
                             /\ storyGroupTable[g].firstSeenAt >= cutoff)
  IN  [i \in 1..Len(recent) |->
         [id |-> recent[i],
          canonicalTitle |-> storyGroupTable[recent[i]].canonicalTitle,
          itemCount |-> OrDefault(storyGroupTable[recent[i]].itemCount, 1)]]

\* getExistingExternalIds(sourceId, externalIds): one Scan request of at most
\* ExistingIdsScanLimit records, filtered by sourceId
getExistingExternalIds(sourceId, externalIds) ==
  LET evaluated == ScanEvaluated(feedItemTable, Absent, ExistingIdsScanLimit)
  IN  {feedItemTable[i].externalId : i \in
         {j \in Range(evaluated) :
            /\ feedItemTable[j].sourceId = sourceId
            /\ feedItemTable[j].externalId # ""
            /\ feedItemTable[j].externalId \in externalIds}}

\* createStoryGroupInDb: the record put
NewStoryGroup(normalizedTitle) ==
  [canonicalTitle |-> normalizedTitle, itemCount |-> 1, firstSeenAt |-> now,
   category |-> ""]

\* A count written by putting a whole new record
putStoryGroupCount(storyGroupId, newCount) ==
  Put(storyGroupTable, storyGroupId,
      [canonicalTitle |->
         IF storyGroupId \in DOMAIN storyGroupTable
           THEN storyGroupTable[storyGroupId].canonicalTitle ELSE <<>>,
       itemCount |-> newCount,
       firstSeenAt |->
         IF storyGroupId \in DOMAIN storyGroupTable
           THEN storyGroupTable[storyGroupId].firstSeenAt ELSE Absent,
       category |-> ""])

\* updateStoryGroupCount: SET itemCount = :count on the key, which creates a
\* record holding only the attributes set when the key is missing
updateStoryGroupCount(storyGroupId, newCount) ==
  Put(storyGroupTable, storyGroupId,
      IF storyGroupId \in DOMAIN storyGroupTable
        THEN [storyGroupTable[storyGroupId] EXCEPT !.itemCount = newCount]
        ELSE [canonicalTitle |-> <<>>, itemCount |-> newCount,
              firstSeenAt |-> Absent, category |-> ""])

\* saveFeedItem: expiresAt = floor(publishedAt / 1000) + TTL_DAYS days
ExpiresAt(publishedAt) == (publishedAt \div 1000) + TTL_DAYS * 24 * 60 * 60

NewFeedItem(sourceId, entry, storyGroupId) ==
  [sourceId |-> sourceId, externalId |-> entry.externalId,
   storyGroupId |-> storyGroupId, deletedSourceId |-> Absent,
   expiresAt |-> ExpiresAt(entry.publishedAt), isHidden |-> FALSE,
   category |-> "", aiProcessedAt |-> Absent]

\* What an UpdateCommand finds under a Source key: the record, or for a
\* missing key a record without attributes
SourceRecord(sourceId) ==
  IF sourceId \in DOMAIN sourceTable THEN sourceTable[sourceId]
  ELSE [isActive |-> FALSE, consecutiveErrors |-> 0, url |-> FALSE,
        name |-> FALSE, pollIntervalMinutes |-> Absent,
        lastPolledAt |-> Absent, lastSuccessAt |-> Absent, lastError |-> "",
        updatedAt |-> Absent]

\* An update of the timestamps that leaves the error count
updateSourcePolled(sourceId) ==
  Put(sourceTable, sourceId,
      [SourceRecord(sourceId) EXCEPT !.lastPolledAt = now,
                                     !.lastSuccessAt = now,
                                     !.updatedAt = now,
                                     !.lastError = ""])

\* An update that also switches the source on
updateSourceSuccessAndEnable(sourceId) ==
  Put(sourceTable, sourceId,
      [SourceRecord(sourceId) EXCEPT !.lastPolledAt = now,
                                     !.lastSuccessAt = now,
                                     !.consecutiveErrors = 0,
                                     !.isActive = TRUE,
                                     !.updatedAt = now,
                                     !.lastError = ""])

\* updateSourceSuccess: SET lastPolledAt, lastSuccessAt, consecutiveErrors =
\* 0, updatedAt REMOVE lastError on the key; a missing key gets a record
\* without url, name or isActive
updateSourceSuccess(sourceId) ==
  Put(sourceTable, sourceId,
      [SourceRecord(sourceId) EXCEPT !.lastPolledAt = now,
                                     !.lastSuccessAt = now,
                                     !.consecutiveErrors = 0,
                                     !.updatedAt = now,
                                     !.lastError = ""])

\* updateSourceError, the read: one Scan request with Limit 1 and the filter
\* id = :id; consecutiveErrors of Items[0], or 0
CurrentErrors(sourceId) ==
  LET evaluated == ScanEvaluated(sourceTable, Absent, SourceErrorScanLimit)
      items == FilterSeq(evaluated, LAMBDA s : s = sourceId)
  IN  IF items = <<>> THEN 0
      ELSE OrDefault(sourceTable[items[1]].consecutiveErrors, 0)

\* errorMessage.slice(0, 500) of "Source <name>: <message>"
ErrorMessage == "Fetch failed"

\* A write that never switches the source off
SourceErrorUpdateKeepActive(sourceId, currentErrors) ==
  Put(sourceTable, sourceId,
      [SourceRecord(sourceId) EXCEPT !.lastPolledAt = now,
                                     !.lastError = ErrorMessage,
                                     !.consecutiveErrors = currentErrors + 1,
                                     !.isActive = TRUE,
                                     !.updatedAt = now])

\* updateSourceError, the write
SourceErrorUpdate(sourceId, currentErrors) ==
  LET newErrorCount == currentErrors + 1
      shouldDisable == newErrorCount >= MAX_CONSECUTIVE_ERRORS
  IN  Put(sourceTable, sourceId,
          [SourceRecord(sourceId) EXCEPT !.lastPolledAt = now,
                                         !.lastError = ErrorMessage,
                                         !.consecutiveErrors = newErrorCount,
                                         !.isActive = ~shouldDisable,
                                         !.updatedAt = now])

(***************************************************************************)
(* rss-poll/handler.ts                                                     *)
(***************************************************************************)
Idle(p) == p.pc = "idle"

\* results is the PollResult of the run, its errors the kinds of the error
\* strings pushed.  The last four fields are history: visited lists the
\* updateSourceSuccess and updateSourceError calls with the number of
\* entries fetched, itemFailures and skipped count the iterations that threw
\* and those that met a known entry, sizeAtStart is the size of the FeedItem
\* table when the run started, response is what the current source's
\* endpoint answered ("error", "feed", "notFeed"), loaded is the list that
\* getRecentStoryGroups returned, matched counts per group the
\* updateStoryGroupCount calls of the run that returned.
PollIdle ==
  [pc |-> "idle", sources |-> <<>>, si |-> 0, groups |-> <<>>,
   items |-> <<>>, existingIds |-> {}, ii |-> 0, storyGroupId |-> Absent,
   currentErrors |-> 0,
   results |-> [sourcesProcessed |-> 0, itemsFound |-> 0,
                newItemsSaved |-> 0, errors |-> <<>>],
   visited |-> <<>>, itemFailures |-> 0, skipped |-> 0, sizeAtStart |-> 0,
   response |-> "none", loaded |-> <<>>,
   matched |-> [g \in GroupIds |-> 0]]

\* A return of fresh counters instead of the run's
ReturnZeroes(p) ==
  [PollIdle EXCEPT !.pc = "done", !.sources = p.sources,
                   !.visited = p.visited,
                   !.itemFailures = p.itemFailures, !.skipped = p.skipped,
                   !.sizeAtStart = p.sizeAtStart]

\* return results: the locals are gone, the result and the history stay
PollDone(p) ==
  [PollIdle EXCEPT !.pc = "done", !.sources = p.sources,
                   !.results = p.results, !.visited = p.visited,
                   !.itemFailures = p.itemFailures, !.skipped = p.skipped,
                   !.sizeAtStart = p.sizeAtStart]

\* The call of updateSourceSuccess or updateSourceError for the current
\* source
Visit(p, call) ==
  [p EXCEPT !.visited = Append(@, [source |-> p.sources[p.si],
                                   call |-> call,
                                   entries |-> Len(p.items),
                                   response |-> p.response])]

\* A catch block that logs and pushes nothing
SwallowError(p, kind) == p

\* results.errors.push
PushError(p, kind) == [p EXCEPT !.results.errors = Append(@, kind)]

\* getAllActiveSources; an empty list ends the run
PollStart ==
  /\ Idle(poll)
  /\ LET started ==
           [PollIdle EXCEPT
              !.sizeAtStart = Cardinality(DOMAIN feedItemTable)]
     IN  \/ /\ UNCHANGED budget
            /\ poll' = IF getAllActiveSources = <<>> THEN PollDone(started)
                       ELSE [started EXCEPT
                               !.pc = "loadGroups",
                               !.sources = getAllActiveSources]
         \/ /\ CanFail
            /\ budget' = Failed
            /\ poll' = PollDone(started)
  /\ UNCHANGED <<storeVars, now, del, cleanup, strm, subtracted, failures>>

\* A list that is loaded although the request failed
StoredRecentStoryGroups == getRecentStoryGroups(DaysBack)

\* let recentStoryGroups = [], which a failed load leaves in place
InitialRecentStoryGroups == <<>>

\* getRecentStoryGroups(7); a failure leaves the list empty
PollLoadGroups ==
  /\ poll.pc = "loadGroups"
  /\ \/ /\ poll' = [poll EXCEPT !.pc = "fetch", !.si = 1,
                                !.groups = getRecentStoryGroups(DaysBack),
                                !.loaded = getRecentStoryGroups(DaysBack)]
        /\ UNCHANGED budget
     \/ /\ CanFail
        /\ budget' = Failed
        /\ poll' = [poll EXCEPT !.pc = "fetch", !.si = 1,
                                !.groups = InitialRecentStoryGroups]
  /\ UNCHANGED <<storeVars, now, del, cleanup, strm, subtracted, failures>>

\* fetchAndParseRSS(source.url) throws (a non-2xx response, a network error)
PollFetchThrows ==
  /\ poll.pc = "fetch"
  /\ poll' = PushError([poll EXCEPT !.pc = "errorRead",
                                    !.response = "error"], "source")
  /\ failures' = [failures EXCEPT ![poll.sources[poll.si]] =
                                    Min(@ + 1, MAX_CONSECUTIVE_ERRORS)]
  /\ UNCHANGED <<storeVars, now, budget, del, cleanup, strm, subtracted>>

\* fetchAndParseRSS(source.url) returns one of the entry lists
PollFetchReturns(lists) ==
  /\ poll.pc = "fetch"
  /\ \E items \in lists :
       /\ Len(items) <= Cardinality(freeItemIds)
       /\ Len(items) <= Cardinality(freeGroupIds)
       /\ poll' = [poll EXCEPT
                     !.pc = IF items = <<>> THEN "success" ELSE "existing",
                     !.items = items,
                     !.response = "feed",
                     !.results.itemsFound = @ + Len(items)]
  /\ failures' = [failures EXCEPT ![poll.sources[poll.si]] = 0]
  /\ UNCHANGED <<storeVars, now, budget, del, cleanup, strm, subtracted>>

\* parseStandardRSS: the <item> elements of the body that have a title and a
\* link; a body that is no feed (an HTML page, JSON, plain text) has none
parseStandardRSS(body) == IF body.isFeed THEN body.items ELSE <<>>

\* fetchAndParseRSS(source.url) gets a 2xx response whose body is no feed
PollFetchNotFeed ==
  /\ poll.pc = "fetch"
  /\ LET items == parseStandardRSS([isFeed |-> FALSE, items |-> <<>>])
     IN  poll' = [poll EXCEPT
                    !.pc = IF items = <<>> THEN "success" ELSE "existing",
                    !.items = items,
                    !.response = "notFeed",
                    !.results.itemsFound = @ + Len(items)]
  /\ UNCHANGED <<storeVars, now, budget, del, cleanup, strm, subtracted,
                 failures>>

\* getExistingExternalIds; a failure leaves the set empty
PollExisting ==
  /\ poll.pc = "existing"
  /\ LET externalIds == {Entries[poll.items[i]].externalId :
                           i \in 1..Len(poll.items)}
     IN  \/ /\ poll' = [poll EXCEPT
                          !.pc = "item", !.ii = 1,
                          !.existingIds =
                            getExistingExternalIds(poll.sources[poll.si],
                                                   externalIds)]
            /\ UNCHANGED budget
         \/ /\ CanFail
            /\ budget' = Failed
            /\ poll' = [poll EXCEPT !.pc = "item", !.ii = 1,
                                    !.existingIds = {}]
  /\ UNCHANGED <<storeVars, now, del, cleanup, strm, subtracted, failures>>

\* A local list that is left as it was loaded
KeepLocalCopy(groups, m) == groups

\* matchingGroup.itemCount++ on the element of recentStoryGroups
IncrementLocalCopy(groups, m) == [groups EXCEPT ![m].itemCount = @ + 1]

\* The group half of one loop iteration: skip a known entry, or find the
\* matching group and update its count, or create a group
PollItem ==
  /\ poll.pc = "item"
  /\ IF poll.ii > Len(poll.items)
       THEN /\ poll' = [poll EXCEPT !.pc = "success"]
            /\ UNCHANGED <<storyGroupTable, freeGroupIds, budget>>
     ELSE IF Entries[poll.items[poll.ii]].externalId \in poll.existingIds
       THEN /\ poll' = [poll EXCEPT !.ii = @ + 1, !.skipped = @ + 1]
            /\ UNCHANGED <<storyGroupTable, freeGroupIds, budget>>
     ELSE
       LET titleNormalized == TitleNormalized[poll.items[poll.ii]]
           m == findMatchingStoryGroup(titleNormalized, poll.groups)
       IN  \/ /\ m # 0
              /\ storyGroupTable' =
                   updateStoryGroupCount(poll.groups[m].id,
                                         poll.groups[m].itemCount + 1)
              /\ poll' = [poll EXCEPT
                            !.pc = "save",
                            !.storyGroupId = poll.groups[m].id,
                            !.groups = IncrementLocalCopy(poll.groups, m),
                            !.matched[poll.groups[m].id] = @ + 1]
              /\ UNCHANGED <<freeGroupIds, budget>>
           \/ /\ m = 0
              /\ \E id \in freeGroupIds :
                   /\ storyGroupTable' =
                        Put(storyGroupTable, id, NewStoryGroup(titleNormalized))
                   /\ freeGroupIds' = freeGroupIds \ {id}
                   /\ poll' = [poll EXCEPT
                                 !.pc = "save", !.storyGroupId = id,
                                 !.groups = Append(@,
                                   [id |-> id,
                                    canonicalTitle |-> titleNormalized,
                                    itemCount |-> 1])]
              /\ UNCHANGED budget
           \/ /\ CanFail
              /\ budget' = Failed
              /\ poll' = PushError([poll EXCEPT !.ii = @ + 1,
                                                !.itemFailures = @ + 1],
                                   "item")
              /\ UNCHANGED <<storyGroupTable, freeGroupIds>>
  /\ UNCHANGED <<sourceTable, feedItemTable, freeItemIds, stream, now, del,
                 cleanup, strm, subtracted, failures>>

\* saveFeedItem, the other half of the iteration
PollSave ==
  /\ poll.pc = "save"
  /\ \/ \E id \in freeItemIds :
          LET item == NewFeedItem(poll.sources[poll.si],
                                  Entries[poll.items[poll.ii]],
                                  poll.storyGroupId)
          IN  /\ feedItemTable' = Put(feedItemTable, id, item)
              /\ freeItemIds' = freeItemIds \ {id}
              /\ stream' = Append(stream, StreamRecord("INSERT", id, item))
              /\ poll' = [poll EXCEPT !.pc = "item", !.ii = @ + 1,
                                      !.storyGroupId = Absent,
                                      !.results.newItemsSaved = @ + 1]
              /\ UNCHANGED budget
     \/ /\ CanFail
        /\ budget' = Failed
        /\ poll' = PushError([poll EXCEPT !.pc = "item", !.ii = @ + 1,
                                          !.storyGroupId = Absent,
                                          !.itemFailures = @ + 1],
                             "item")
        /\ UNCHANGED <<feedItemTable, freeItemIds, stream>>
  /\ UNCHANGED <<sourceTable, storyGroupTable, freeGroupIds, now, del,
                 cleanup, strm, subtracted, failures>>

\* A loop that a failed source ends
StopAtFailure(p) ==
  IF p.si < Len(p.sources) /\ p.pc \notin {"errorRead", "errorWrite"}
    THEN [p EXCEPT !.pc = "fetch", !.si = @ + 1, !.items = <<>>,
                   !.existingIds = {}, !.ii = 0, !.currentErrors = 0,
                   !.response = "none"]
    ELSE PollDone(p)

\* The next source of the loop, or the end of the run
NextSource(p) ==
  IF p.si < Len(p.sources)
    THEN [p EXCEPT !.pc = "fetch", !.si = @ + 1, !.items = <<>>,
                   !.existingIds = {}, !.ii = 0, !.currentErrors = 0,
                   !.response = "none"]
    ELSE PollDone(p)

\* updateSourceSuccess, which swallows a failure of its request
PollSuccess ==
  /\ poll.pc = "success"
  /\ \/ /\ sourceTable' = updateSourceSuccess(poll.sources[poll.si])
        /\ UNCHANGED budget
     \/ /\ CanFail
        /\ budget' = Failed
        /\ UNCHANGED sourceTable
  /\ poll' = NextSource([Visit(poll, "updateSourceSuccess") EXCEPT
                           !.results.sourcesProcessed = @ + 1])
  /\ UNCHANGED <<feedItemTable, storyGroupTable, freeItemIds, freeGroupIds,
                 stream, now, del, cleanup, strm, subtracted, failures>>

\* updateSourceError, the Scan that reads the current error count
PollErrorRead ==
  /\ poll.pc = "errorRead"
  /\ \/ /\ poll' = [Visit(poll, "updateSourceError") EXCEPT
                      !.pc = "errorWrite",
                      !.currentErrors = CurrentErrors(poll.sources[poll.si])]
        /\ UNCHANGED budget
     \/ /\ CanFail
        /\ budget' = Failed
        /\ poll' = NextSource(Visit(poll, "updateSourceError"))
  /\ UNCHANGED <<storeVars, now, del, cleanup, strm, subtracted, failures>>

\* updateSourceError, the update
PollErrorWrite ==
  /\ poll.pc = "errorWrite"
  /\ \/ /\ sourceTable' = SourceErrorUpdate(poll.sources[poll.si],
                                            poll.currentErrors)
        /\ UNCHANGED budget
     \/ /\ CanFail
        /\ budget' = Failed
        /\ UNCHANGED sourceTable
  /\ poll' = NextSource(poll)
  /\ UNCHANGED <<feedItemTable, storyGroupTable, freeItemIds, freeGroupIds,
                 stream, now, del, cleanup, strm, subtracted, failures>>

(***************************************************************************)
(* frontend/src/pages/Admin.tsx                                            *)
(***************************************************************************)
\* The administrator toggles the Active switch of a source that is on
handleToggleActive(source) ==
  /\ source \in DOMAIN sourceTable
  /\ sourceTable[source].isActive
  /\ sourceTable' = [sourceTable EXCEPT ![source].isActive = ~@,
                                         ![source].updatedAt = now]
  /\ UNCHANGED <<feedItemTable, storyGroupTable, freeItemIds, freeGroupIds,
                 stream, now, budget, poll, del, cleanup, strm, subtracted,
                 failures>>

(***************************************************************************)
(* data-cleanup/db.ts                                                      *)
(***************************************************************************)
\* The Query on the sourceId index: ids of the source's items, with the
\* projected storyGroupId
QuerySourceItems(sourceId) ==
  LET ids == FilterSeq(ScanEvaluated(feedItemTable, Absent, 0),
                       LAMBDA i : feedItemTable[i].sourceId = sourceId)
  IN  [k \in 1..Len(ids) |->
         [id |-> ids[k], storyGroupId |-> feedItemTable[ids[k]].storyGroupId]]

\* The UpdateCommand of markFeedItemsForDeletion: SET deletedSourceId and
\* expiresAt on the key, which creates a record holding only those when the
\* key is missing
MarkedItem(id, sourceId, expireSoon) ==
  IF id \in DOMAIN feedItemTable
    THEN [feedItemTable[id] EXCEPT !.deletedSourceId = sourceId,
                                   !.expiresAt = expireSoon]
    ELSE [sourceId |-> Absent, externalId |-> "", storyGroupId |-> Absent,
          deletedSourceId |-> sourceId, expiresAt |-> expireSoon,
          isHidden |-> FALSE, category |-> "", aiProcessedAt |-> Absent]

\* SET itemCount = :count, an absolute write in place of the subtraction
setStoryGroupCount(storyGroupId, count) ==
  [storyGroupTable EXCEPT ![storyGroupId].itemCount = count]

\* decrementStoryGroupCount: SET itemCount = itemCount - :count.  DynamoDB
\* rejects the update when the record (hence the attribute) is missing.
CanDecrement(storyGroupId) == storyGroupId \in DOMAIN storyGroupTable

decrementStoryGroupCount(storyGroupId, count) ==
  [storyGroupTable EXCEPT ![storyGroupId].itemCount = @ - count]

\* FilterExpression of deleteMarkedFeedItems
IsMarked(id) == feedItemTable[id].deletedSourceId # Absent

\* A filter that selects the groups whose count is exactly 0
IsEmptyGroup(id) == storyGroupTable[id].itemCount = 0

\* FilterExpression of cleanupOrphanedStoryGroups
IsOrphan(id) == storyGroupTable[id].itemCount <= 0

(***************************************************************************)
(* data-cleanup/handler.ts: handleDeleteSourceMutation, and the            *)
(* markForDeletion action of handleCleanupEvent                            *)
(***************************************************************************)
\* marksWritten is history: the number of marking UpdateCommands of the
\* invocation that the store accepted
DelIdle ==
  [pc |-> "idle", kind |-> "none", sourceId |-> Absent, expireSoon |-> 0,
   items |-> <<>>, k |-> 0, markedCount |-> 0, success |-> FALSE,
   itemsMarked |-> 0, marksWritten |-> 0]

\* How the invocation ends once markFeedItemsForDeletion has returned
AfterMarking(d) ==
  IF d.kind = "mutation"
    THEN [d EXCEPT !.pc = "deleteSource"]
    ELSE [d EXCEPT !.pc = "done", !.itemsMarked = d.markedCount]

\* The invocation starts and markFeedItemsForDeletion issues its Query
DelStart(kind, sourceId) ==
  /\ Idle(del)
  /\ kind = "mutation" => sourceId \in DOMAIN sourceTable
  /\ kind = "markForDeletion" => budget.marks > 0
  /\ LET b == IF kind = "markForDeletion"
                THEN [budget EXCEPT !.marks = @ - 1] ELSE budget
         items == QuerySourceItems(sourceId)
         d == [DelIdle EXCEPT !.kind = kind, !.sourceId = sourceId,
                              !.expireSoon = now + ExpireSoonSeconds]
     IN  \/ /\ budget' = b
            /\ del' = IF items = <<>> THEN AfterMarking(d)
                      ELSE [d EXCEPT !.pc = "mark", !.items = items, !.k = 1]
         \/ /\ CanFail
            /\ budget' = [b EXCEPT !.faults = @ - 1]
            /\ del' = [d EXCEPT !.pc = "done"]
  /\ UNCHANGED <<storeVars, now, poll, cleanup, strm, subtracted, failures>>

\* The next item of the page, or the end of markFeedItemsForDeletion
NextMark(d) ==
  IF d.k < Len(d.items)
    THEN [d EXCEPT !.pc = "mark", !.k = @ + 1]
    ELSE AfterMarking([d EXCEPT !.items = <<>>, !.k = 0])

\* The UpdateCommand that marks one item; on failure the item counts 0
DelMark ==
  /\ del.pc = "mark"
  /\ LET item == del.items[del.k]
         marked == MarkedItem(item.id, del.sourceId, del.expireSoon)
     IN  \/ /\ feedItemTable' = Put(feedItemTable, item.id, marked)
            /\ stream' = Append(stream,
                 StreamRecord(IF item.id \in DOMAIN feedItemTable
                                THEN "MODIFY" ELSE "INSERT", item.id, marked))
            /\ del' = IF item.storyGroupId # Absent
                        THEN [del EXCEPT !.pc = "decrement",
                                         !.marksWritten = @ + 1]
                        ELSE NextMark([del EXCEPT !.markedCount = @ + 1,
                                                  !.marksWritten = @ + 1])
            /\ UNCHANGED budget
         \/ /\ CanFail
            /\ budget' = Failed
            /\ del' = NextMark(del)
            /\ UNCHANGED <<feedItemTable, stream>>
  /\ UNCHANGED <<sourceTable, storyGroupTable, freeItemIds, freeGroupIds,
                 now, poll, cleanup, strm, subtracted, failures>>

\* The eager decrement for the item just marked; on failure the item
\* counts 0
DelDecrement ==
  /\ del.pc = "decrement"
  /\ LET item == del.items[del.k]
     IN  \/ /\ CanDecrement(item.storyGroupId)
            /\ storyGroupTable' =
                 decrementStoryGroupCount(item.storyGroupId, 1)
            /\ subtracted' = [subtracted EXCEPT ![item.id].eager = @ + 1]
            /\ del' = NextMark([del EXCEPT !.markedCount = @ + 1])
            /\ UNCHANGED budget
         \/ /\ ~CanDecrement(item.storyGroupId)
            /\ del' = NextMark(del)
            /\ UNCHANGED <<storyGroupTable, subtracted, budget>>
         \/ /\ CanFail
            /\ budget' = Failed
            /\ del' = NextMark(del)
            /\ UNCHANGED <<storyGroupTable, subtracted>>
  /\ UNCHANGED <<sourceTable, feedItemTable, freeItemIds, freeGroupIds,
                 stream, now, poll, cleanup, strm, failures>>

\* deleteSource, and the result of the mutation
DelDeleteSource ==
  /\ del.pc = "deleteSource"
  /\ \/ /\ sourceTable' = Delete(sourceTable, {del.sourceId})
        /\ del' = [del EXCEPT !.pc = "done", !.success = TRUE,
                              !.itemsMarked = del.markedCount]
        /\ UNCHANGED budget
     \/ /\ CanFail
        /\ budget' = Failed
        /\ del' = [del EXCEPT !.pc = "done", !.success = FALSE,
                              !.itemsMarked = 0]
        /\ UNCHANGED sourceTable
  /\ UNCHANGED <<feedItemTable, storyGroupTable, freeItemIds, freeGroupIds,
                 stream, now, poll, cleanup, strm, subtracted, failures>>

(***************************************************************************)
(* data-cleanup/handler.ts: handleCleanupEvent with the actions            *)
(* deleteMarked, cleanupOrphans and full                                   *)
(***************************************************************************)
\* due and orphans record what the store held when the invocation started;
\* dmErrors and coErrors count the store errors met by deleteMarkedFeedItems
\* and cleanupOrphanedStoryGroups; dmReturned and coReturned tell that the
\* function returned; maxBatch is the largest DeleteRequest list sent.
CleanupIdle ==
  [pc |-> "idle", action |-> "none", lastKey |-> Absent, page |-> <<>>,
   pageLast |-> Absent, bi |-> 0, due |-> {}, orphans |-> {},
   dmErrors |-> 0, coErrors |-> 0, dmReturned |-> FALSE,
   coReturned |-> FALSE, maxBatch |-> 0]

CleanupActions == {"deleteMarked", "cleanupOrphans", "full"}

IsExpired(id) ==
  feedItemTable[id].expiresAt # Absent /\ feedItemTable[id].expiresAt <= now

CleanupStart(action) ==
  /\ Idle(cleanup)
  /\ cleanup' =
       [CleanupIdle EXCEPT
          !.action = action,
          !.pc = IF action = "cleanupOrphans" THEN "scanOrphans"
                 ELSE "scanMarked",
          !.due = {i \in DOMAIN feedItemTable : IsMarked(i) \/ IsExpired(i)},
          !.orphans = {g \in DOMAIN storyGroupTable : IsOrphan(g)}]
  /\ UNCHANGED <<storeVars, now, budget, poll, del, strm, subtracted, failures>>

\* deleteMarkedFeedItems has returned
AfterDeleteMarked(c) ==
  LET r == [c EXCEPT !.dmReturned = TRUE, !.lastKey = Absent,
                     !.page = <<>>, !.pageLast = Absent, !.bi = 0]
  IN  IF c.action = "full" THEN [r EXCEPT !.pc = "scanOrphans"]
      ELSE [r EXCEPT !.pc = "done"]

\* The catch of handleCleanupEvent
CleanupThrown(c) ==
  [c EXCEPT !.pc = "done", !.lastKey = Absent, !.page = <<>>,
            !.pageLast = Absent, !.bi = 0]

\* One Scan request of deleteMarkedFeedItems; an empty page ends the loop
CleanupScanMarked ==
  /\ cleanup.pc = "scanMarked"
  /\ LET evaluated == ScanEvaluated(feedItemTable, cleanup.lastKey,
                                    DeleteScanLimit)
         items == FilterSeq(evaluated, IsMarked)
         last == ScanLastEvaluatedKey(feedItemTable, cleanup.lastKey,
                                      DeleteScanLimit)
     IN  \/ /\ cleanup' =
                 IF items = <<>> THEN AfterDeleteMarked(cleanup)
                 ELSE [cleanup EXCEPT !.pc = "deleteBatch", !.page = items,
                                      !.pageLast = last, !.bi = 1]
            /\ UNCHANGED budget
         \/ /\ CanFail
            /\ budget' = Failed
            /\ cleanup' = CleanupThrown([cleanup EXCEPT !.dmErrors = @ + 1])
  /\ UNCHANGED <<storeVars, now, poll, del, strm, subtracted, failures>>

\* After one batch: the next batch, the next page, or the end of the loop
NextBatch(c) ==
  IF c.bi + DeleteBatchSize <= Len(c.page)
    THEN [c EXCEPT !.bi = @ + DeleteBatchSize]
  ELSE IF c.pageLast # Absent
    THEN [c EXCEPT !.pc = "scanMarked", !.lastKey = c.pageLast,
                   !.page = <<>>, !.pageLast = Absent, !.bi = 0]
  ELSE AfterDeleteMarked(c)

\* One BatchWriteCommand of DeleteRequests; a failure is logged and skipped
CleanupDeleteBatch ==
  /\ cleanup.pc = "deleteBatch"
  /\ LET batch == SubSeq(cleanup.page, cleanup.bi,
                         Min(cleanup.bi + DeleteBatchSize - 1,
                             Len(cleanup.page)))
         present == FilterSeq(batch, LAMBDA i : i \in DOMAIN feedItemTable)
         sent == [cleanup EXCEPT
                    !.maxBatch = IF Len(batch) > @ THEN Len(batch) ELSE @]
     IN  \/ /\ feedItemTable' = Delete(feedItemTable, Range(batch))
            /\ stream' = stream \o
                 [k \in 1..Len(present) |->
                    StreamRecord("REMOVE", present[k],
                                 feedItemTable[present[k]])]
            /\ cleanup' = NextBatch(sent)
            /\ UNCHANGED budget
         \/ /\ CanFail
            /\ budget' = Failed
            /\ cleanup' = NextBatch([sent EXCEPT !.dmErrors = @ + 1])
            /\ UNCHANGED <<feedItemTable, stream>>
  /\ UNCHANGED <<sourceTable, storyGroupTable, freeItemIds, freeGroupIds,
                 now, poll, del, strm, subtracted, failures>>

\* cleanupOrphanedStoryGroups has returned
AfterOrphans(c) ==
  [c EXCEPT !.pc = "done", !.coReturned = TRUE, !.lastKey = Absent,
            !.page = <<>>, !.pageLast = Absent, !.bi = 0]

\* After one page of orphans: the next page, or the end of the loop
NextOrphanPage(c) ==
  IF c.pageLast # Absent
    THEN [c EXCEPT !.pc = "scanOrphans", !.lastKey = c.pageLast,
                   !.page = <<>>, !.pageLast = Absent, !.bi = 0]
    ELSE AfterOrphans(c)

\* One Scan request of cleanupOrphanedStoryGroups
CleanupScanOrphans ==
  /\ cleanup.pc = "scanOrphans"
  /\ LET evaluated == ScanEvaluated(storyGroupTable, cleanup.lastKey,
                                    OrphanScanLimit)
         items == FilterSeq(evaluated, IsOrphan)
         last == ScanLastEvaluatedKey(storyGroupTable, cleanup.lastKey,
                                      OrphanScanLimit)
         c == [cleanup EXCEPT !.page = items, !.pageLast = last, !.bi = 1]
     IN  \/ /\ cleanup' = IF items = <<>> THEN NextOrphanPage(c)
                          ELSE [c EXCEPT !.pc = "deleteOrphan"]
            /\ UNCHANGED budget
         \/ /\ CanFail
            /\ budget' = Failed
            /\ cleanup' = CleanupThrown([cleanup EXCEPT !.coErrors = @ + 1])
  /\ UNCHANGED <<storeVars, now, poll, del, strm, subtracted, failures>>

\* One DeleteCommand on a StoryGroup key; a failure is logged and skipped
CleanupDeleteOrphan ==
  /\ cleanup.pc = "deleteOrphan"
  /\ LET id == cleanup.page[cleanup.bi]
         next == IF cleanup.bi < Len(cleanup.page)
                   THEN [cleanup EXCEPT !.bi = @ + 1]
                   ELSE NextOrphanPage(cleanup)
     IN  \/ /\ storyGroupTable' = Delete(storyGroupTable, {id})
            /\ cleanup' = next
            /\ UNCHANGED budget
         \/ /\ CanFail
            /\ budget' = Failed
            /\ cleanup' = [next EXCEPT !.coErrors = @ + 1]
            /\ UNCHANGED storyGroupTable
  /\ UNCHANGED <<sourceTable, feedItemTable, freeItemIds, freeGroupIds,
                 stream, now, poll, del, strm, subtracted, failures>>

(***************************************************************************)
(* data-cleanup/handler.ts: handleStreamEvent                              *)
(***************************************************************************)
\* batch is event.Records; decrements is the storyGroupDecrements map as
\* the sequence of its entries in insertion order; issued is the sequence
\* of decrementStoryGroupCount calls made so far; errors is results.errors.
\* deliveries is history: how many times the batch has been delivered
StreamIdle ==
  [pc |-> "idle", batch |-> <<>>, decrements |-> <<>>, k |-> 0,
   issued |-> <<>>, errors |-> 0, deliveries |-> 0]

\* A change of either kind that a deletion goes through: marking (MODIFY)
\* and removal
IsMarkOrRemoval(record) == record.eventName \in {"MODIFY", "REMOVE"}

\* A deletion: eventName REMOVE with an OldImage (the stream's view type
\* gives every REMOVE one)
IsRemoval(record) == record.eventName = "REMOVE"

\* The first loop of handleStreamEvent over records[i..]
RECURSIVE Accumulate(_, _, _)
Accumulate(records, i, decrements) ==
  IF i > Len(records) THEN decrements
  ELSE LET record == records[i]
       IN  IF IsRemoval(record) /\ record.storyGroupId # Absent
             THEN IF \E j \in 1..Len(decrements) :
                       decrements[j].storyGroupId = record.storyGroupId
                    THEN LET j == CHOOSE j \in 1..Len(decrements) :
                               decrements[j].storyGroupId = record.storyGroupId
                         IN  Accumulate(records, i + 1,
                               [decrements EXCEPT ![j].count = @ + 1])
                    ELSE Accumulate(records, i + 1,
                           Append(decrements,
                             [storyGroupId |-> record.storyGroupId,
                              count |-> 1]))
             ELSE Accumulate(records, i + 1, decrements)

\* A batch of the first n undelivered records arrives
StreamReceive(n) ==
  /\ Idle(strm)
  /\ n \in 1..Min(StreamBatchSize, Len(stream))
  /\ LET batch == SubSeq(stream, 1, n)
         decrements == Accumulate(batch, 1, <<>>)
     IN  strm' = [StreamIdle EXCEPT
                    !.pc = IF decrements = <<>> THEN "done" ELSE "decrement",
                    !.batch = batch, !.decrements = decrements,
                    !.k = IF decrements = <<>> THEN 0 ELSE 1,
                    !.deliveries = 1]
  /\ stream' = SubSeq(stream, n + 1, Len(stream))
  /\ UNCHANGED <<sourceTable, feedItemTable, storyGroupTable, freeItemIds,
                 freeGroupIds, now, budget, poll, del, cleanup, subtracted, failures>>

\* The event source mapping delivers the batch just processed once more
\* (delivery is at least once); the handler starts over on it
StreamRedeliver ==
  /\ strm.pc = "done"
  /\ strm.batch # <<>>
  /\ strm.deliveries < MaxDeliveries
  /\ LET decrements == Accumulate(strm.batch, 1, <<>>)
     IN  strm' = [StreamIdle EXCEPT
                    !.pc = IF decrements = <<>> THEN "done" ELSE "decrement",
                    !.batch = strm.batch, !.decrements = decrements,
                    !.k = IF decrements = <<>> THEN 0 ELSE 1,
                    !.deliveries = strm.deliveries + 1]
  /\ UNCHANGED <<storeVars, now, budget, poll, del, cleanup, subtracted,
                 failures>>

\* The REMOVE records of the batch whose decrement goes to storyGroupId
RemovedOf(batch, storyGroupId) ==
  {batch[i].id : i \in {j \in 1..Len(batch) :
                          /\ batch[j].eventName = "REMOVE"
                          /\ batch[j].storyGroupId = storyGroupId}}

\* A catch block that gives up the rest of the batch
AbortBatch(s) == [s EXCEPT !.errors = @ + 1, !.pc = "done", !.k = 0]

\* The catch block of the second loop: results.errors.push(message)
RecordStreamError(s) == [s EXCEPT !.errors = @ + 1]

\* One decrementStoryGroupCount call of the second loop; a failure is
\* recorded in results.errors
StreamDecrement ==
  /\ strm.pc = "decrement"
  /\ LET d == strm.decrements[strm.k]
         next == [strm EXCEPT
                    !.issued = Append(@, d),
                    !.pc = IF strm.k < Len(strm.decrements)
                             THEN "decrement" ELSE "done",
                    !.k = IF strm.k < Len(strm.decrements) THEN @ + 1 ELSE 0]
     IN  \/ /\ CanDecrement(d.storyGroupId)
            /\ storyGroupTable' =
                 decrementStoryGroupCount(d.storyGroupId, d.count)
            /\ subtracted' =
                 [i \in ItemIds |->
                    IF i \in RemovedOf(strm.batch, d.storyGroupId)
                      THEN [subtracted[i] EXCEPT !.stream = @ + 1]
                      ELSE subtracted[i]]
            /\ strm' = next
            /\ UNCHANGED budget
         \/ /\ ~CanDecrement(d.storyGroupId)
            /\ strm' = RecordStreamError(next)
            /\ UNCHANGED <<storyGroupTable, subtracted, budget>>
         \/ /\ CanFail
            /\ budget' = Failed
            /\ strm' = RecordStreamError(next)
            /\ UNCHANGED <<storyGroupTable, subtracted>>
  /\ UNCHANGED <<sourceTable, feedItemTable, freeItemIds, freeGroupIds,
                 stream, now, poll, del, cleanup, failures>>

(***************************************************************************)
(* The store's TTL reclamation, and the clock                              *)
(***************************************************************************)
\* DynamoDB deletes a record whose expiresAt has passed and emits a REMOVE
TTLExpire(id) ==
  /\ id \in DOMAIN feedItemTable
  /\ IsExpired(id)
  /\ feedItemTable' = Delete(feedItemTable, {id})
  /\ stream' = Append(stream, StreamRecord("REMOVE", id, feedItemTable[id]))
  /\ UNCHANGED <<sourceTable, storyGroupTable, freeItemIds, freeGroupIds,
                 now, budget, poll, del, cleanup, strm, subtracted, failures>>

\* An hour passes
Tick ==
  /\ budget.ticks > 0
  /\ now' = now + ExpireSoonSeconds
  /\ budget' = [budget EXCEPT !.ticks = @ - 1]
  /\ UNCHANGED <<storeVars, poll, del, cleanup, strm, subtracted, failures>>

(***************************************************************************)
(* Initial states                                                          *)
(***************************************************************************)
SeededSources ==
  [s \in SourceIds |->
     [isActive |-> TRUE, consecutiveErrors |-> 0, url |-> TRUE,
      name |-> TRUE, pollIntervalMinutes |-> DefaultPollInterval,
      lastPolledAt |-> Absent, lastSuccessAt |-> Absent, lastError |-> "",
      updatedAt |-> StartTime]]

NoHistory ==
  /\ subtracted = [i \in ItemIds |-> [eager |-> 0, stream |-> 0]]
  /\ failures = [s \in SourceIds |-> 0]

NoInvocation ==
  /\ poll = PollIdle
  /\ del = DelIdle
  /\ cleanup = CleanupIdle
  /\ strm = StreamIdle

\* What the environment may still do: store requests it may fail, hours it
\* may let pass, markForDeletion invocations it may make
Budget(faults, ticks, marks) ==
  [faults |-> faults, ticks |-> ticks, marks |-> marks]

\* After deployment and seeding: the sources, and empty tables.  items and
\* groups are the numbers of ids that can be generated.
Deployed(items, groups, b) ==
  /\ sourceTable = SeededSources
  /\ feedItemTable = <<>>
  /\ storyGroupTable = <<>>
  /\ freeItemIds = 1..items
  /\ freeGroupIds = 1..groups
  /\ stream = <<>>
  /\ now = StartTime
  /\ budget = b
  /\ NoInvocation
  /\ NoHistory

\* A FeedItem as saveFeedItem wrote it, and as a source deletion that ran
\* at time markedAt left it
SavedItem(sourceId, e, storyGroupId) ==
  NewFeedItem(sourceId, Entries[e], storyGroupId)

MarkedSavedItem(sourceId, e, storyGroupId, markedAt) ==
  [SavedItem(sourceId, e, storyGroupId) EXCEPT
     !.deletedSourceId = sourceId,
     !.expiresAt = markedAt + ExpireSoonSeconds]

\* No two records of the table share (sourceId, externalId)
UniqueExternalIds(table) ==
  \A i, j \in DOMAIN table :
    (/\ table[i].sourceId = table[j].sourceId
     /\ table[i].externalId = table[j].externalId) => i = j

\* The FeedItem tables whose records are drawn from records
ItemTables(records) ==
  {t \in UNION {[1..k -> records] : k \in 0..MaxStored} :
     UniqueExternalIds(t)}

\* The number of records of the table that reference the group and carry
\* no deletion marker (marking a record subtracts 1 for it)
Referencing(table, g) ==
  Cardinality({i \in DOMAIN table :
                 /\ table[i].storyGroupId = g
                 /\ table[i].deletedSourceId = Absent})

\* The StoryGroup table that ingesting the items of table, and marking the
\* marked ones, left: one group per story of the table (its id the story's
\* number), created from the story's first entry
GroupsOf(table) ==
  [g \in {table[i].storyGroupId : i \in DOMAIN table} |->
     LET first == CHOOSE e \in EntryIds :
                    /\ EntryStory[e] = g
                    /\ \A f \in EntryIds : EntryStory[f] = g => e <= f
     IN  [canonicalTitle |-> TitleNormalized[first],
          itemCount |-> Referencing(table, g),
          firstSeenAt |-> StartTime, category |-> ""]]

\* The Source table once the sources of the marked records are deleted
SourcesLeft(table) ==
  [s \in SourceIds \ {table[i].deletedSourceId : i \in DOMAIN table} |->
     SeededSources[s]]

\* A store that ingestion (and, for marked records, source deletions) left,
\* with no invocation in flight and room for room more items and groups
Populated(items, groups, sources, records, room, b) ==
  /\ feedItemTable = items
  /\ storyGroupTable = groups
  /\ sourceTable = sources
  /\ freeItemIds = {i \in ItemIds : i > Len(items) /\ i <= Len(items) + room}
  /\ freeGroupIds = {g \in GroupIds : g > MaxGroups /\ g <= MaxGroups + room}
  /\ stream = records
  /\ now = StartTime
  /\ budget = b
  /\ NoInvocation
  /\ NoHistory

(***************************************************************************)
(* Next-state relations                                                    *)
(***************************************************************************)
\* An invocation returns its result and its execution ends
PollReturn ==
  /\ poll.pc = "done"
  /\ poll' = PollIdle
  /\ UNCHANGED <<storeVars, now, budget, del, cleanup, strm, subtracted, failures>>

DelReturn ==
  /\ del.pc = "done"
  /\ del' = DelIdle
  /\ UNCHANGED <<storeVars, now, budget, poll, cleanup, strm, subtracted, failures>>

CleanupReturn ==
  /\ cleanup.pc = "done"
  /\ cleanup' = CleanupIdle
  /\ UNCHANGED <<storeVars, now, budget, poll, del, strm, subtracted, failures>>

StreamReturn ==
  /\ strm.pc = "done"
  /\ strm' = StreamIdle
  /\ UNCHANGED <<storeVars, now, budget, poll, del, cleanup, subtracted, failures>>

\* The steps of a poll run whose fetches succeed
PollIngest ==
  \/ PollReturn
  \/ PollLoadGroups
  \/ PollExisting
  \/ PollItem
  \/ PollSave
  \/ PollSuccess

\* The steps that record a failed fetch
PollFailure ==
  \/ PollFetchThrows
  \/ PollErrorRead
  \/ PollErrorWrite

DelStep ==
  \/ DelReturn
  \/ DelMark
  \/ DelDecrement
  \/ DelDeleteSource

CleanupStep ==
  \/ CleanupReturn
  \/ CleanupScanMarked
  \/ CleanupDeleteBatch
  \/ CleanupScanOrphans
  \/ CleanupDeleteOrphan

StreamStep ==
  \/ StreamReturn
  \/ StreamDecrement

\* No invocation is in flight
AllIdle == Idle(poll) /\ Idle(del) /\ Idle(cleanup) /\ Idle(strm)

\* The invocations of the lifecycle manager and the store's own steps, one
\* invocation at a time
Lifecycle ==
  \/ AllIdle /\ \E s \in SourceIds : DelStart("mutation", s)
  \/ AllIdle /\ \E a \in CleanupActions : CleanupStart(a)
  \/ AllIdle /\ \E n \in 1..StreamBatchSize : StreamReceive(n)
  \/ AllIdle /\ \E i \in ItemIds : TTLExpire(i)
  \/ AllIdle /\ Tick
  \/ DelStep
  \/ CleanupStep
  \/ StreamStep

(***************************************************************************)
(* Spec: the whole pipeline, from deployment on, one invocation at a time;  *)
(* every fetch returns at most one entry, no store request fails.          *)
(***************************************************************************)
ScenarioItems == 2
ScenarioGroups == 2
MaxTitleWords == 2
MaxCandidates == 2

Init == Deployed(ScenarioItems, ScenarioGroups, Budget(0, MaxTicks, 0))

Next ==
  \/ AllIdle /\ PollStart
  \/ PollIngest
  \/ PollFetchReturns(LifecycleFeedLists)
  \/ Lifecycle

Spec == Init /\ [][Next]_vars

(***************************************************************************)
(* SpecPoll: poll runs over a store that earlier runs filled, with faults.  *)
(***************************************************************************)
\* The records of entries ingested from the first source, each in the group
\* of its story
IngestedItems ==
  {SavedItem(1, e, EntryStory[e]) : e \in EntryIds}

InitPoll ==
  \E items \in ItemTables(IngestedItems) :
    Populated(items, GroupsOf(items), SeededSources, <<>>, MaxFeedLen,
              Budget(0, 0, 0))

NextPoll ==
  \/ PollStart
  \/ PollIngest
  \/ PollFetchReturns(FeedLists)
  \/ PollFailure

SpecPoll == InitPoll /\ [][NextPoll]_vars

(***************************************************************************)
(* SpecHealth: poll runs whose fetches throw or return no entry.           *)
(***************************************************************************)
InitHealth == Deployed(0, 0, Budget(MaxFaults, 0, 0))

NextHealth ==
  \/ PollStart
  \/ PollReturn
  \/ PollLoadGroups
  \/ PollSuccess
  \/ PollFetchReturns({<<>>})
  \/ PollFailure

SpecHealth == InitHealth /\ [][NextHealth]_vars

(***************************************************************************)
(* SpecDelete: source deletions (the RPC, and the markForDeletion action   *)
(* of the cleanup handler) over a store that poll runs filled, with        *)
(* faults.                                                                 *)
(***************************************************************************)
IngestedBySources ==
  {SavedItem(s, e, EntryStory[e]) : s \in SourceIds, e \in EntryIds}

InitDelete ==
  \E items \in ItemTables(IngestedBySources) :
    Populated(items, GroupsOf(items), SeededSources, <<>>, 0,
              Budget(MaxFaults, 0, MaxMarks))

NextDelete ==
  \/ \E s \in SourceIds : DelStart("mutation", s)
  \/ \E s \in SourceIds : DelStart("markForDeletion", s)
  \/ DelStep

SpecDelete == InitDelete /\ [][NextDelete]_vars

(***************************************************************************)
(* SpecCleanup: cleanup invocations over a store in which the first        *)
(* source has been deleted: its items are marked (just now, or an hour     *)
(* ago), the items of the other sources are not.  With faults.             *)
(***************************************************************************)
AwaitingCleanup ==
  {MarkedSavedItem(1, e, EntryStory[e], t) :
     e \in EntryIds, t \in {StartTime - ExpireSoonSeconds, StartTime}}
  \cup {SavedItem(s, e, EntryStory[e]) : s \in SourceIds \ {1}, e \in EntryIds}

InitCleanup ==
  \E items \in ItemTables(AwaitingCleanup) :
    Populated(items, GroupsOf(items), SourcesLeft(items), <<>>, 0,
              Budget(MaxFaults, 0, 0))

NextCleanup ==
  \/ \E a \in CleanupActions : CleanupStart(a)
  \/ CleanupStep

SpecCleanup == InitCleanup /\ [][NextCleanup]_vars

(***************************************************************************)
(* SpecStream: stream batches over a stream of undelivered records, with   *)
(* faults.                                                                 *)
(***************************************************************************)
\* The images change records carry: an item of each story, and a record
\* that marking a vanished key created (it has no storyGroupId)
RecordImages ==
  {SavedItem(1, e, EntryStory[e]) : e \in EntryIds}
  \cup {[sourceId |-> Absent, externalId |-> "", storyGroupId |-> Absent,
         deletedSourceId |-> 1, expiresAt |-> StartTime,
         isHidden |-> FALSE, category |-> "", aiProcessedAt |-> Absent]}

\* The streams of at most MaxRecords records, the k-th about the item k
Streams ==
  UNION {[1..n -> [eventName : {"INSERT", "MODIFY", "REMOVE"},
                   image : RecordImages]] : n \in 0..MaxRecords}

\* The groups of the stories whose group has not been swept, one item each
GroupTables ==
  {[g \in D |-> [canonicalTitle |-> TitleNormalized[1], itemCount |-> 1,
                 firstSeenAt |-> StartTime, category |-> ""]] :
     D \in SUBSET (1..MaxGroups)}

InitStream ==
  \E records \in Streams, groups \in GroupTables :
    Populated(<<>>, groups, SeededSources,
              [k \in 1..Len(records) |->
                 StreamRecord(records[k].eventName, k, records[k].image)],
              0, Budget(MaxFaults, 0, 0))

NextStream ==
  \/ \E n \in 1..StreamBatchSize : StreamReceive(n)
  \/ StreamStep

SpecStream == InitStream /\ [][NextStream]_vars

(***************************************************************************)
(* SpecConverge: the lifecycle of the items of one story, ingested from    *)
(* several sources into one group; no store request fails.                 *)
(***************************************************************************)
\* n items of the first story: its first entry from each source in turn,
\* then its second entry
OneStory(n) ==
  [k \in 1..n |->
     SavedItem(((k - 1) % NumSources) + 1, ((k - 1) \div NumSources) + 1, 1)]

InitConverge ==
  \E n \in 1..Min(MaxStored, 2 * NumSources) :
    Populated(OneStory(n), GroupsOf(OneStory(n)), SeededSources, <<>>, 0,
              Budget(0, MaxTicks, 0))

SpecConverge == InitConverge /\ [][Lifecycle]_vars

(***************************************************************************)
(* SpecSweep: orphan sweeps that overlap poll runs, over a store in which  *)
(* the first source has been deleted; no store request fails.              *)
(***************************************************************************)
MarkedByDeletion ==
  {MarkedSavedItem(1, e, EntryStory[e], StartTime) : e \in EntryIds}

InitSweep ==
  \E items \in ItemTables(MarkedByDeletion) :
    Populated(items, GroupsOf(items), SourcesLeft(items), <<>>, 1,
              Budget(0, 0, 0))

NextSweep ==
  \/ CleanupStart("cleanupOrphans")
  \/ CleanupReturn
  \/ CleanupScanOrphans
  \/ CleanupDeleteOrphan
  \/ PollStart
  \/ PollIngest
  \/ PollFetchReturns(LifecycleFeedLists)

SpecSweep == InitSweep /\ [][NextSweep]_vars

\* One poll run, the store failing requests and the feeds answering with a
\* list of the catalogue or failing; the store holds nothing or what an
\* earlier run saved of the first source
RunFeedLists == {f \in FeedLists : f \in {<<>>, <<2>>, <<1, 2>>}}

EarlierRun == {SavedItem(1, 2, EntryStory[2])}

InitRun ==
  \E items \in ItemTables(EarlierRun) :
    Populated(items, GroupsOf(items), SeededSources, <<>>, ScenarioItems,
              Budget(MaxFaults, 0, 0))

NextRun ==
  \/ PollStart
  \/ PollLoadGroups
  \/ PollFetchReturns(RunFeedLists)
  \/ PollExisting
  \/ PollItem
  \/ PollSave
  \/ PollSuccess
  \/ PollFailure

SpecRun == InitRun /\ [][NextRun]_vars

\* Poll runs whose fetches fail or return nothing, and an administrator who
\* switches sources off
NextOperator ==
  \/ NextHealth
  \/ \E source \in SourceIds : handleToggleActive(source)

SpecOperator == InitHealth /\ [][NextOperator]_vars

\* normalizeTitle and calculateSimilarity applied to two titles.  A title is
\* a list of at most MaxTitleWords words of the vocabulary ("Moon!", "moon",
\* "cats", "cup", "the", "AI"), joined by blanks.  The invocation record
\* holds the word numbers, the two normalized titles and both scores.
TitleVocabulary ==
  << <<"M","o","o","n","!">>, <<"m","o","o","n">>, <<"c","a","t","s">>,
     <<"c","u","p">>, <<"t","h","e">>, <<"A","I">> >>

TitleOf(words) == Join([i \in 1..Len(words) |-> TitleVocabulary[words[i]]])

WordLists ==
  UNION {[1..n -> 1..Len(TitleVocabulary)] : n \in 0..MaxTitleWords}

EmptyStore ==
  /\ sourceTable = SeededSources
  /\ feedItemTable = <<>>
  /\ storyGroupTable = <<>>
  /\ freeItemIds = {}
  /\ freeGroupIds = {}
  /\ stream = <<>>
  /\ now = StartTime
  /\ budget = Budget(0, 0, 0)
  /\ del = DelIdle
  /\ cleanup = CleanupIdle
  /\ strm = StreamIdle
  /\ NoHistory

InitSimilarity ==
  /\ EmptyStore
  /\ \E wordsA, wordsB \in WordLists :
       poll = [pc |-> "titles", wordsA |-> wordsA, wordsB |-> wordsB,
               a |-> <<>>, b |-> <<>>, score |-> <<0, 1>>,
               reverse |-> <<0, 1>>]

Similarity ==
  /\ poll.pc = "titles"
  /\ LET a == normalizeTitle(TitleOf(poll.wordsA))
         b == normalizeTitle(TitleOf(poll.wordsB))
     IN  poll' = [poll EXCEPT !.pc = "scored", !.a = a, !.b = b,
                             !.score = calculateSimilarity(a, b),
                             !.reverse = calculateSimilarity(b, a)]
  /\ UNCHANGED <<storeVars, now, budget, del, cleanup, strm, subtracted,
                 failures>>

SpecSimilarity == InitSimilarity /\ [][Similarity]_vars

\* The match of one entry's title against the loaded groups, as the item loop
\* does it: normalizeTitle, then findMatchingStoryGroup.  The titles are
\* "Moon, cats: cup win!", "The moon cats cup win new", ""; the groups carry the canonical titles
\* "moon cats cup new", "moon cats cup mars found", "moon cats cup win mars",
\* "moon cats cup mars", "mars found", "cup cats moon win",
\* in lists of at most MaxCandidates.
MatchTitles ==
  { <<"M","o","o","n",","," ","c","a","t","s",":"," ","c","u","p"," ","w","i","n","!">>,
    <<"T","h","e"," ","m","o","o","n"," ","c","a","t","s"," ","c","u","p"," ","w","i","n"," ","n","e","w">>,
    <<>> }

CandidateTitles ==
  << <<"m","o","o","n"," ","c","a","t","s"," ","c","u","p"," ","n","e","w">>,
     <<"m","o","o","n"," ","c","a","t","s"," ","c","u","p"," ","m","a","r","s"," ","f","o","u","n","d">>,
     <<"m","o","o","n"," ","c","a","t","s"," ","c","u","p"," ","w","i","n"," ","m","a","r","s">>,
     <<"m","o","o","n"," ","c","a","t","s"," ","c","u","p"," ","m","a","r","s">>,
     <<"m","a","r","s"," ","f","o","u","n","d">>,
     <<"c","u","p"," ","c","a","t","s"," ","m","o","o","n"," ","w","i","n">> >>

CandidateLists ==
  UNION {[1..n -> 1..Len(CandidateTitles)] : n \in 0..MaxCandidates}

GroupList(candidates) ==
  [i \in 1..Len(candidates) |->
     [id |-> i, canonicalTitle |-> CandidateTitles[candidates[i]],
      itemCount |-> 1]]

InitMatch ==
  /\ EmptyStore
  /\ \E title \in MatchTitles, candidates \in CandidateLists :
       poll = [pc |-> "title", title |-> title,
               groups |-> GroupList(candidates),
               titleNormalized |-> <<>>, matchingGroup |-> 0]

Match ==
  /\ poll.pc = "title"
  /\ LET titleNormalized == normalizeTitle(poll.title)
     IN  poll' = [poll EXCEPT
                    !.pc = "matched",
                    !.titleNormalized = titleNormalized,
                    !.matchingGroup =
                      findMatchingStoryGroup(titleNormalized, poll.groups)]
  /\ UNCHANGED <<storeVars, now, budget, del, cleanup, strm, subtracted,
                 failures>>

SpecMatch == InitMatch /\ [][Match]_vars

\* One poll run whose endpoints fail, answer with a feed or answer with a
\* body that is no feed
NextFetch ==
  \/ NextRun
  \/ PollFetchNotFeed

SpecFetch == InitRun /\ [][NextFetch]_vars

\* The pipeline, one invocation at a time, over a store whose records the
\* classifier has processed: one item of the first story and its group
ClassifiedItems(table) ==
  [i \in DOMAIN table |->
     [table[i] EXCEPT !.category = "tech", !.aiProcessedAt = StartTime]]

ClassifiedGroups(table) ==
  [g \in DOMAIN table |-> [table[g] EXCEPT !.category = "tech"]]

InitClassified ==
  Populated(ClassifiedItems(OneStory(1)),
            ClassifiedGroups(GroupsOf(OneStory(1))),
            SeededSources, <<>>, 1, Budget(0, MaxTicks, 0))

SpecClassified == InitClassified /\ [][Next]_vars

\* Stream batches that are delivered more than once, and orphan sweeps
\* between the invocations of the stream handler, over a stream of REMOVE
\* records
InitRedeliver ==
  \E records \in {r \in Streams :
                    \A k \in 1..Len(r) : r[k].eventName = "REMOVE"},
     groups \in GroupTables :
    Populated(<<>>, groups, SeededSources,
              [k \in 1..Len(records) |->
                 StreamRecord(records[k].eventName, k, records[k].image)],
              0, Budget(MaxFaults, 0, 0))

NextRedeliver ==
  \/ Idle(cleanup) /\ \E n \in 1..StreamBatchSize : StreamReceive(n)
  \/ Idle(cleanup) /\ StreamRedeliver
  \/ StreamStep
  \/ Idle(strm) /\ CleanupStart("cleanupOrphans")
  \/ CleanupReturn
  \/ CleanupScanOrphans
  \/ CleanupDeleteOrphan

SpecRedeliver == InitRedeliver /\ [][NextRedeliver]_vars

\* One poll run and one source deletion that overlap, over a store that
\* holds the first entry of the first story from every source; the feeds
\* answer with nothing or with the second entry of that story; no store
\* request fails
InterleaveFeedLists == {f \in FeedLists : f \in {<<>>, <<2>>}}

InitInterleave ==
  Populated(OneStory(NumSources), GroupsOf(OneStory(NumSources)),
            SeededSources, <<>>, NumSources, Budget(0, 0, 0))

NextInterleave ==
  \/ PollStart
  \/ PollLoadGroups
  \/ PollFetchReturns(InterleaveFeedLists)
  \/ PollExisting
  \/ PollItem
  \/ PollSave
  \/ PollSuccess
  \/ \E s \in SourceIds : DelStart("mutation", s)
  \/ DelMark
  \/ DelDecrement
  \/ DelDeleteSource

SpecInterleave == InitInterleave /\ [][NextInterleave]_vars

(***************************************************************************)
(* SpecOverlap: two calls of updateSourceError or updateSourceSuccess for  *)
(* the first source, issued by poll runs that overlap.  The frames of the  *)
(* two calls are kept in poll; errorsAtStart is history, the source's      *)
(* consecutiveErrors before the calls.                                     *)
(***************************************************************************)
OverlapCalls == {"updateSourceError", "updateSourceSuccess"}

CallFrame(op, errorsAtStart) ==
  [op |-> op, pc |-> "start", currentErrors |-> 0,
   errorsAtStart |-> errorsAtStart]

InitOverlap ==
  \E c \in 0..(MAX_CONSECUTIVE_ERRORS - 1), first, second \in OverlapCalls :
    /\ sourceTable = [SeededSources EXCEPT ![1].consecutiveErrors = c]
    /\ feedItemTable = <<>>
    /\ storyGroupTable = <<>>
    /\ freeItemIds = {}
    /\ freeGroupIds = {}
    /\ stream = <<>>
    /\ now = StartTime
    /\ budget = Budget(0, 0, 0)
    /\ del = DelIdle
    /\ cleanup = CleanupIdle
    /\ strm = StreamIdle
    /\ NoHistory
    /\ poll = [pc |-> "calls",
               calls |-> <<CallFrame(first, c), CallFrame(second, c)>>]

\* updateSourceError of call i: the Scan that reads the current error count
UpdateSourceErrorRead(i) ==
  /\ poll.calls[i].op = "updateSourceError"
  /\ poll.calls[i].pc = "start"
  /\ poll' = [poll EXCEPT !.calls[i].pc = "write",
                          !.calls[i].currentErrors = CurrentErrors(1)]
  /\ UNCHANGED <<storeVars, now, budget, del, cleanup, strm, subtracted,
                 failures>>

\* updateSourceError of call i: the UpdateCommand
UpdateSourceErrorWrite(i) ==
  /\ poll.calls[i].op = "updateSourceError"
  /\ poll.calls[i].pc = "write"
  /\ sourceTable' = SourceErrorUpdate(1, poll.calls[i].currentErrors)
  /\ poll' = [poll EXCEPT !.calls[i].pc = "done"]
  /\ UNCHANGED <<feedItemTable, storyGroupTable, freeItemIds, freeGroupIds,
                 stream, now, budget, del, cleanup, strm, subtracted,
                 failures>>

\* updateSourceSuccess of call i: its single UpdateCommand
UpdateSourceSuccessCall(i) ==
  /\ poll.calls[i].op = "updateSourceSuccess"
  /\ poll.calls[i].pc = "start"
  /\ sourceTable' = updateSourceSuccess(1)
  /\ poll' = [poll EXCEPT !.calls[i].pc = "done"]
  /\ UNCHANGED <<feedItemTable, storyGroupTable, freeItemIds, freeGroupIds,
                 stream, now, budget, del, cleanup, strm, subtracted,
                 failures>>

NextOverlap ==
  \E i \in 1..2 :
    \/ UpdateSourceErrorRead(i)
    \/ UpdateSourceErrorWrite(i)
    \/ UpdateSourceSuccessCall(i)

SpecOverlap == InitOverlap /\ [][NextOverlap]_vars

(***************************************************************************)
(* SpecWindow: one poll run over a store that holds up to one StoryGroup    *)
(* more than a Scan request evaluates, each first seen just now or eight    *)
(* days ago.                                                                *)
(***************************************************************************)
\* firstSeenAt of a group inside, and of one outside, the window of DaysBack
\* days
GroupAges == {StartTime, StartTime - (DaysBack + 1) * SecondsPerDay}

AgedGroupTables ==
  UNION {[D -> [canonicalTitle : {TitleNormalized[1]}, itemCount : {1},
                firstSeenAt : GroupAges, category : {""}]] :
           D \in SUBSET (1..(RecentGroupsScanLimit + 1))}

InitWindow ==
  \E groups \in AgedGroupTables :
    /\ sourceTable = SeededSources
    /\ feedItemTable = <<>>
    /\ storyGroupTable = groups
    /\ freeItemIds = {1}
    /\ freeGroupIds = {RecentGroupsScanLimit + 2}
    /\ stream = <<>>
    /\ now = StartTime
    /\ budget = Budget(MaxFaults, 0, 0)
    /\ NoInvocation
    /\ NoHistory

SpecWindow == InitWindow /\ [][NextRun]_vars

(***************************************************************************)
(* Properties                                                              *)
(***************************************************************************)
\* Every REMOVE record emitted has been delivered and its batch processed
RemovalsProcessed ==
  /\ Idle(strm)
  /\ \A k \in 1..Len(stream) : stream[k].eventName # "REMOVE"

Quiescent == AllIdle /\ RemovalsProcessed

\* The FeedItems that reference the group and carry no deletion marker
LiveItems(g) ==
  {i \in DOMAIN feedItemTable :
     /\ feedItemTable[i].storyGroupId = g
     /\ ~IsMarked(i)}

\* C1: in every quiescent state each StoryGroup's itemCount is the number
\* of live FeedItems that reference it.  (Stated where no marked item awaits
\* its removal, so that every reading of "live" gives the same number.)
C1_CountEqualsLiveItems ==
  (/\ Quiescent
   /\ \A i \in DOMAIN feedItemTable : ~IsMarked(i))
  => \A g \in DOMAIN storyGroupTable :
       storyGroupTable[g].itemCount = Cardinality(LiveItems(g))

\* C2: no two FeedItems share (sourceId, externalId), whatever poll runs
\* have happened.
C2_OneItemPerExternalId ==
  \A i, j \in DOMAIN feedItemTable :
    (/\ feedItemTable[i].sourceId = feedItemTable[j].sourceId
     /\ feedItemTable[i].externalId = feedItemTable[j].externalId)
    => i = j

\* C3: an item that a source deletion marked (and decremented eagerly) and
\* whose removal the stream handler has processed had exactly 1 subtracted
\* from its group's itemCount over both paths.
C3_SubtractedOnce ==
  \A i \in ItemIds :
    (/\ subtracted[i].eager > 0
     /\ i \notin DOMAIN feedItemTable
     /\ RemovalsProcessed)
    => subtracted[i].eager + subtracted[i].stream = 1

\* C5: once the fetch of a source has failed in MAX_CONSECUTIVE_ERRORS
\* consecutive runs and no store request failed, the source has
\* consecutiveErrors = 5 and isActive = false, whichever other sources
\* exist.
C5_DisabledAfterFiveFailures ==
  \A s \in SourceIds :
    (/\ Idle(poll)
     /\ failures[s] = MAX_CONSECUTIVE_ERRORS
     /\ budget.faults = MaxFaults)
    => /\ sourceTable[s].consecutiveErrors = MAX_CONSECUTIVE_ERRORS
       /\ ~sourceTable[s].isActive

\* C6: the first half of an iteration for a new entry either adds 1 to the
\* stored itemCount of the matched group (whatever it was, 0 included) and
\* creates no group, or creates exactly one group with itemCount 1 and the
\* entry's normalized title.
C6_MatchedGroupPlusOne ==
  [][(poll.pc = "item" /\ poll'.pc = "save") =>
       LET g == poll'.storyGroupId
       IN  IF g \in DOMAIN storyGroupTable
             THEN /\ storyGroupTable'[g].itemCount =
                       storyGroupTable[g].itemCount + 1
                  /\ DOMAIN storyGroupTable' = DOMAIN storyGroupTable
             ELSE /\ DOMAIN storyGroupTable' = DOMAIN storyGroupTable \cup {g}
                  /\ storyGroupTable'[g].itemCount = 1
                  /\ storyGroupTable'[g].canonicalTitle =
                       TitleNormalized[poll.items[poll.ii]]]_vars

\* C4: once every item ingested into a group has been marked by a source
\* deletion, physically removed, and its removal processed by the stream
\* handler, the group's itemCount is <= 0, and an orphan sweep that completes
\* in that state leaves no such group.  (In SpecConverge no store request
\* fails, and an item leaves the table only after a source deletion marked
\* it: the entries are 14 days from their natural expiry.)
C4_CountConvergence ==
  /\ (Quiescent /\ feedItemTable = <<>>)
     => \A g \in DOMAIN storyGroupTable : storyGroupTable[g].itemCount <= 0
  /\ (/\ cleanup.pc = "done"
      /\ cleanup.action \in {"cleanupOrphans", "full"}
      /\ RemovalsProcessed
      /\ feedItemTable = <<>>)
     => storyGroupTable = <<>>

\* Two items of one group, both decremented on marking and again by the
\* stream handler, and the group swept afterwards
C4_Converged ==
  /\ cleanup.pc = "done"
  /\ cleanup.action = "cleanupOrphans"
  /\ cleanup.orphans = {1}
  /\ RemovalsProcessed
  /\ feedItemTable = <<>>
  /\ storyGroupTable = <<>>
  /\ sourceTable = <<>>
  /\ \A i \in 1..2 : subtracted[i] = [eager |-> 1, stream |-> 1]

\* C7: when a cleanup invocation with action full ends, every StoryGroup
\* that had itemCount <= 0 when it started is deleted, whatever happened to
\* the marked-item sweep.  (Stated for invocations
\* whose orphan sweep itself met no store error.)
C7_OrphanSweepAlwaysRuns ==
  (/\ cleanup.pc = "done"
   /\ cleanup.action = "full"
   /\ cleanup.coErrors = 0)
  => \A g \in cleanup.orphans : g \notin DOMAIN storyGroupTable

\* The number of REMOVE records of the batch that carry the group id
RemoveRecords(batch, g) ==
  Cardinality({k \in 1..Len(batch) :
                 batch[k].eventName = "REMOVE" /\ batch[k].storyGroupId = g})

\* The decrement updates issued for the group
IssuedFor(issued, g) ==
  {k \in 1..Len(issued) : issued[k].storyGroupId = g}

\* C8: when a stream batch has been handled, each group id carried by a
\* REMOVE record has received exactly one decrement, of the number of
\* REMOVE records that carry it, and no other update was issued.
C8_OneDecrementPerGroup ==
  strm.pc = "done" =>
    /\ \A g \in GroupIds :
         IF RemoveRecords(strm.batch, g) > 0
           THEN /\ Cardinality(IssuedFor(strm.issued, g)) = 1
                /\ \A k \in IssuedFor(strm.issued, g) :
                     strm.issued[k].count = RemoveRecords(strm.batch, g)
           ELSE IssuedFor(strm.issued, g) = {}
    /\ \A k \in 1..Len(strm.issued) : strm.issued[k].storyGroupId \in GroupIds

\* A batch whose REMOVE records of two groups interleave
C8_InterleavedBatch ==
  /\ strm.pc = "done"
  /\ Len(strm.batch) = 3
  /\ \A k \in 1..3 : strm.batch[k].eventName = "REMOVE"
  /\ strm.batch[1].storyGroupId = 1
  /\ strm.batch[2].storyGroupId = 2
  /\ strm.batch[3].storyGroupId = 1
  /\ strm.issued = << [storyGroupId |-> 1, count |-> 2],
                      [storyGroupId |-> 2, count |-> 1] >>
  /\ strm.errors = 0
  /\ storyGroupTable[1].itemCount = -1
  /\ storyGroupTable[2].itemCount = 0

\* C9: when the deletion RPC for a source has returned success = true, every
\* FeedItem of the source carries the deletion marker and the Source record
\* is gone; and while items are being marked the Source record still exists.
C9_SuccessMeansAllMarked ==
  /\ (del.pc = "done" /\ del.kind = "mutation" /\ del.success)
     => /\ \A i \in DOMAIN feedItemTable :
             feedItemTable[i].sourceId = del.sourceId => IsMarked(i)
        /\ del.sourceId \notin DOMAIN sourceTable
  /\ (del.kind = "mutation" /\ del.pc \in {"mark", "decrement"})
     => del.sourceId \in DOMAIN sourceTable

\* C10: after a deleteMarked sweep that met no store error, no FeedItem
\* remains that carried a deletion marker when the sweep started, and no
\* delete request held more than DeleteBatchSize items.  (The claim also
\* covers the unmarked items past their expiresAt; this is its part about
\* the marked ones.)
C10_NoMarkedItemLeft ==
  (/\ cleanup.pc = "done"
   /\ cleanup.action = "deleteMarked"
   /\ cleanup.dmReturned
   /\ cleanup.dmErrors = 0)
  => /\ \A i \in cleanup.due : IsMarked(i) => i \notin DOMAIN feedItemTable
     /\ cleanup.maxBatch <= DeleteBatchSize

\* C11: the orphan sweep deletes a StoryGroup only if its itemCount is <= 0
\* at the moment it is deleted; and when a sweep has finished without store
\* errors, every group that was an orphan when it started and whose
\* itemCount is still <= 0 is gone.
C11_DeletesOnlyOrphans ==
  [][/\ \A g \in DOMAIN storyGroupTable \ DOMAIN storyGroupTable' :
          storyGroupTable[g].itemCount <= 0
     /\ (cleanup'.pc = "done" /\ cleanup'.coReturned /\ cleanup'.coErrors = 0)
        => \A g \in cleanup'.orphans :
             g \in DOMAIN storyGroupTable'
               => storyGroupTable'[g].itemCount > 0]_vars

\* C12: a poll run visits the active sources it loaded in order, each exactly
\* once, and calls exactly one of updateSourceSuccess and updateSourceError
\* for each; the call is updateSourceError exactly for the sources whose
\* fetch threw, and the sources after a failed one are still visited.
VisitedSources == [i \in 1..Len(poll.visited) |-> poll.visited[i].source]

ErrorsOfKind(kind) ==
  Cardinality({i \in 1..Len(poll.results.errors) :
                 poll.results.errors[i] = kind})

C13_ItemFailureIsLocal ==
  /\ ErrorsOfKind("item") = poll.itemFailures
  /\ poll.pc \in {"success", "done"} =>
       poll.skipped + poll.itemFailures + poll.results.newItemsSaved
         = poll.results.itemsFound
  /\ poll.pc # "idle" =>
       poll.results.newItemsSaved
         = Cardinality(DOMAIN feedItemTable) - poll.sizeAtStart

\* The first entry of a source failed and the second was saved
C13_SavedAfterFailure ==
  /\ poll.pc = "success"
  /\ poll.items = <<1, 2>>
  /\ poll.itemFailures = 1
  /\ poll.results.newItemsSaved = 1
  /\ \A i \in DOMAIN feedItemTable :
       feedItemTable[i].externalId # Entries[1].externalId

\* C14: when a poll run returns, sourcesProcessed plus the number of
\* "Source" error strings is the number of active sources loaded,
\* newItemsSaved is the number of FeedItem records the run persisted and is
\* at most itemsFound, and itemsFound is the sum of the entry counts of the
\* sources whose fetch succeeded.
RECURSIVE EntriesFetched(_)
EntriesFetched(visits) ==
  IF visits = <<>> THEN 0
  ELSE (IF Head(visits).call = "updateSourceSuccess"
          THEN Head(visits).entries ELSE 0)
       + EntriesFetched(Tail(visits))

C14_ResultAddsUp ==
  poll.pc = "done" =>
    /\ poll.results.sourcesProcessed + ErrorsOfKind("source")
         = Len(poll.sources)
    /\ poll.results.newItemsSaved
         = Cardinality(DOMAIN feedItemTable) - poll.sizeAtStart
    /\ poll.results.newItemsSaved <= poll.results.itemsFound
    /\ poll.results.itemsFound = EntriesFetched(poll.visited)

\* A run with a processed source, a failed source, and fewer items saved than
\* found
C14_MixedRun ==
  /\ poll.pc = "done"
  /\ poll.results.sourcesProcessed >= 1
  /\ ErrorsOfKind("source") >= 1
  /\ poll.results.newItemsSaved >= 1
  /\ poll.results.newItemsSaved < poll.results.itemsFound

\* C15: no step of a poll run changes a Source's isActive from false to
\* true, also when an administrator switched the source off after the run
\* had loaded its list of active sources.
C15_PollNeverReenables ==
  [][poll' # poll =>
       \A s \in DOMAIN sourceTable \cap DOMAIN sourceTable' :
         ~sourceTable[s].isActive => ~sourceTable'[s].isActive]_vars

\* C16: an updateSourceSuccess whose request the store accepts sets
\* lastPolledAt and lastSuccessAt of the source to now, consecutiveErrors to
\* 0 and removes lastError; it leaves isActive, url, name and
\* pollIntervalMinutes of the source, and every other source, unchanged.
C16_SuccessFrame ==
  [][(poll.pc = "success" /\ poll' # poll /\ budget' = budget) =>
       LET s == poll.sources[poll.si]
       IN  s \in DOMAIN sourceTable =>
             /\ DOMAIN sourceTable' = DOMAIN sourceTable
             /\ sourceTable'[s].lastPolledAt = now
             /\ sourceTable'[s].lastSuccessAt = now
             /\ sourceTable'[s].consecutiveErrors = 0
             /\ sourceTable'[s].lastError = ""
             /\ sourceTable'[s].isActive = sourceTable[s].isActive
             /\ sourceTable'[s].url = sourceTable[s].url
             /\ sourceTable'[s].name = sourceTable[s].name
             /\ sourceTable'[s].pollIntervalMinutes
                  = sourceTable[s].pollIntervalMinutes
             /\ \A t \in DOMAIN sourceTable \ {s} :
                  sourceTable'[t] = sourceTable[t]]_vars

\* updateSourceSuccess has just recorded the success of a source that an
\* administrator had switched off: its errors are cleared and it is still off
C16_SuccessOfDisabledSource ==
  /\ poll.visited # <<>>
  /\ LET last == poll.visited[Len(poll.visited)]
     IN  /\ last.call = "updateSourceSuccess"
         /\ last.source \in DOMAIN sourceTable
         /\ ~sourceTable[last.source].isActive
         /\ sourceTable[last.source].lastSuccessAt = now
         /\ sourceTable[last.source].consecutiveErrors = 0
         /\ sourceTable[last.source].lastError = ""

\* C17: in every state that poll runs reach, a Source whose
\* consecutiveErrors is 5 or more has isActive = false, and no
\* consecutiveErrors is negative.
C17_DisabledAtFiveErrors ==
  \A s \in DOMAIN sourceTable :
    /\ sourceTable[s].consecutiveErrors >= MAX_CONSECUTIVE_ERRORS
         => ~sourceTable[s].isActive
    /\ sourceTable[s].consecutiveErrors >= 0

\* The fifth failure in a row of a source has been recorded
C17_FifthFailureRecorded ==
  \E s \in DOMAIN sourceTable :
    /\ sourceTable[s].consecutiveErrors = MAX_CONSECUTIVE_ERRORS
    /\ sourceTable[s].lastError = ErrorMessage
    /\ ~sourceTable[s].isActive

\* C19: the similarity of two normalized titles is |A \cap B| / |A \cup B|
\* over their token sets A and B (a repeated token counts once), 0 when a
\* token set is empty; it is the same in both argument orders, lies in
\* [0, 1], and is 1 exactly when the two token sets are equal and not empty.
\* The token a word of the vocabulary leaves in a normalized title: "moon"
\* for "Moon!" and "moon", none for the stop word and the two-letter word.
TokenOfWord ==
  << <<"m","o","o","n">>, <<"m","o","o","n">>, <<"c","a","t","s">>,
     <<"c","u","p">>, <<>>, <<>> >>

TokensOf(words) == {TokenOfWord[words[i]] : i \in 1..Len(words)} \ {<<>>}

C19_SimilarityIsJaccard ==
  poll.pc = "scored" =>
    LET A == TokensOf(poll.wordsA)
        B == TokensOf(poll.wordsB)
        common == Cardinality({t \in A : t \in B})
        all == Cardinality(A) + Cardinality(B) - common
        num == poll.score[1]
        den == poll.score[2]
    IN  /\ den > 0
        /\ (A = {} \/ B = {}) => num = 0
        /\ (A # {} /\ B # {}) => num * all = common * den
        /\ num * poll.reverse[2] = poll.reverse[1] * den
        /\ 0 <= num /\ num <= den
        /\ num = den <=> (A = B /\ A # {})

\* Two titles of different words whose token sets are equal score 1
C19_EqualTokenSets ==
  /\ poll.pc = "scored"
  /\ poll.wordsA # poll.wordsB
  /\ Len(poll.wordsA) # Len(poll.wordsB)
  /\ poll.score[1] = poll.score[2]

\* C18: findMatchingStoryGroup returns no group exactly when no candidate has
\* similarity >= 0.6 with the normalized title; otherwise it returns a
\* candidate of maximum similarity, the first of the list among those.  The
\* threshold is inclusive: a candidate at 3/5 is returned, one at 3/7 is not,
\* one at 4/6 is.
ScoreOf(i) ==
  calculateSimilarity(poll.titleNormalized, poll.groups[i].canonicalTitle)

SameFrac(p, q) == p[1] * q[2] = q[1] * p[2]

C20_ItemsMarkedCountsMarkers ==
  (del.pc = "done" /\ del.kind = "mutation") =>
    del.itemsMarked = del.marksWritten

\* C21: a source whose fetch ended in a non-2xx response, a network error or
\* a body that is no feed is recorded as failed: updateSourceError (not
\* updateSourceSuccess) is called for it, a "Source" error string is pushed,
\* and the run writes no FeedItem and no StoryGroup for it.
C21_FetchErrorIsFailure ==
  /\ \A i \in 1..Len(poll.visited) :
       poll.visited[i].response # "feed"
         => /\ poll.visited[i].call = "updateSourceError"
            /\ poll.visited[i].entries = 0
  /\ poll.pc = "done" =>
       ErrorsOfKind("source")
         = Cardinality({i \in 1..Len(poll.visited) :
                          poll.visited[i].response # "feed"})

\* C22: a fetch that returns a well-formed feed without entries is a
\* success: the fetch writes nothing and pushes no error; the step after it
\* is the call of updateSourceSuccess, which (the store accepting the
\* request) sets consecutiveErrors to 0, and sourcesProcessed grows by 1,
\* with no error string and no change to the FeedItem and StoryGroup tables.
C22_EmptyFeedIsSuccess ==
  [][/\ (poll.pc = "fetch" /\ poll'.response = "feed" /\ poll'.items = <<>>)
         => /\ poll'.pc = "success"
            /\ poll'.results.errors = poll.results.errors
            /\ UNCHANGED <<feedItemTable, storyGroupTable, sourceTable>>
     /\ (poll.pc = "success" /\ poll.items = <<>> /\ poll.response = "feed"
           /\ poll' # poll)
         => LET s == poll.sources[poll.si]
                last == poll'.visited[Len(poll'.visited)]
            IN  /\ Len(poll'.visited) = Len(poll.visited) + 1
                /\ last.source = s
                /\ last.call = "updateSourceSuccess"
                /\ poll'.results.sourcesProcessed
                     = poll.results.sourcesProcessed + 1
                /\ poll'.results.errors = poll.results.errors
                /\ UNCHANGED <<feedItemTable, storyGroupTable>>
                /\ budget' = budget
                     => sourceTable'[s].consecutiveErrors = 0]_vars

\* The success of an empty feed has just been recorded, in a run that
\* recorded the failure of another source
C22_EmptyFeedRecorded ==
  /\ Len(poll.visited) >= 2
  /\ LET last == poll.visited[Len(poll.visited)]
     IN  /\ last.call = "updateSourceSuccess"
         /\ last.response = "feed"
         /\ last.entries = 0
         /\ sourceTable[last.source].consecutiveErrors = 0
         /\ sourceTable[last.source].lastSuccessAt = now
  /\ poll.visited[1].call = "updateSourceError"
  /\ poll.results.sourcesProcessed = 1

\* C23: every FeedItem that saveFeedItem puts has expiresAt =
\* floor(publishedAt in seconds) + 14 * 24 * 60 * 60, a storyGroupId that is
\* set and names a StoryGroup existing when the item is written, isHidden =
\* false and no deletion marker.
C23_SavedItemWellFormed ==
  [][(poll.pc = "save" /\ poll' # poll) =>
       \A id \in DOMAIN feedItemTable' \ DOMAIN feedItemTable :
         LET item == feedItemTable'[id]
             entry == Entries[poll.items[poll.ii]]
         IN  /\ item.expiresAt
                  = (entry.publishedAt \div 1000) + 14 * 24 * 60 * 60
             /\ item.storyGroupId # Absent
             /\ item.storyGroupId \in DOMAIN storyGroupTable
             /\ ~item.isHidden
             /\ item.deletedSourceId = Absent]_vars

\* C24: no step of the poll run, the source deletion, the cleanup or the
\* stream handler changes a classification attribute of a record that
\* stays: a StoryGroup changes in its itemCount only, a FeedItem in its
\* deletion marker and expiresAt only, and a step of a poll run (which puts
\* new FeedItems) changes no existing FeedItem at all.
C24_ClassificationKept ==
  [][/\ \A g \in DOMAIN storyGroupTable \cap DOMAIN storyGroupTable' :
          storyGroupTable'[g]
            = [storyGroupTable[g] EXCEPT
                 !.itemCount = storyGroupTable'[g].itemCount]
     /\ \A i \in DOMAIN feedItemTable \cap DOMAIN feedItemTable' :
          /\ feedItemTable'[i]
               = [feedItemTable[i] EXCEPT
                    !.deletedSourceId = feedItemTable'[i].deletedSourceId,
                    !.expiresAt = feedItemTable'[i].expiresAt]
          /\ poll' # poll => feedItemTable'[i] = feedItemTable[i]]_vars

\* A classified group whose count a poll run has raised and a deletion has
\* lowered, with its classified item marked and its new item not yet
\* classified
C24_ClassifiedAndUpdated ==
  \E i, j \in DOMAIN feedItemTable :
    /\ feedItemTable[i].category = "tech"
    /\ feedItemTable[i].deletedSourceId # Absent
    /\ feedItemTable[j].category = ""
    /\ feedItemTable[j].storyGroupId = feedItemTable[i].storyGroupId
    /\ feedItemTable[i].storyGroupId \in DOMAIN storyGroupTable
    /\ storyGroupTable[feedItemTable[i].storyGroupId].category = "tech"

\* C25: a removal batch that is delivered again is processed like the first
\* time: the handler issues every decrement of the batch and returns (a
\* rejected decrement is counted in the result, not raised), each accepted
\* decrement subtracts its count once more, so that a count can fall below
\* 0; and an orphan sweep that returns without error leaves no group with a
\* count of 0 or less, the negative ones included.
C25_RedeliveryIsSkew ==
  [][/\ (strm.pc = "decrement" /\ strm' # strm) =>
          LET d == strm.decrements[strm.k]
          IN  /\ Len(strm'.issued) = Len(strm.issued) + 1
              /\ strm'.pc = "done" =>
                   /\ Len(strm'.issued) = Len(strm'.decrements)
                   /\ strm'.errors <= Len(strm'.decrements)
              /\ (strm'.errors = strm.errors) =>
                   /\ d.storyGroupId \in DOMAIN storyGroupTable
                   /\ storyGroupTable'[d.storyGroupId].itemCount
                        = storyGroupTable[d.storyGroupId].itemCount - d.count
     /\ (cleanup'.pc = "done" /\ cleanup'.coReturned
           /\ cleanup'.coErrors = 0) =>
          \A g \in DOMAIN storyGroupTable' :
            storyGroupTable'[g].itemCount > 0]_vars

\* The second delivery of a batch has been processed and has left a group
\* with a negative count
C25_NegativeAfterRedelivery ==
  /\ strm.pc = "done"
  /\ strm.deliveries = 2
  /\ strm.errors = 0
  /\ \E g \in DOMAIN storyGroupTable : storyGroupTable[g].itemCount < 0

\* C26: when a poll run and a source deletion that overlap have both
\* finished, the count of the story's group is what it was at the start,
\* plus the items the run added to the group, minus the items the deletion
\* subtracted: no increment and no decrement is lost.
C26_NoLostCounterUpdate ==
  (/\ poll.pc = "done"
   /\ poll.results.errors = <<>>
   /\ del.pc = "done"
   /\ del.success)
  => storyGroupTable[1].itemCount
       = poll.sizeAtStart + poll.results.newItemsSaved - del.itemsMarked

\* C27: once two overlapping calls for a source have both returned, two
\* updateSourceError calls have raised consecutiveErrors by 2, and an
\* updateSourceError with an updateSourceSuccess have left it at 1 at most.
C27_OverlappingCallsCount ==
  (\A i \in 1..2 : poll.calls[i].pc = "done") =>
    LET failed == {i \in 1..2 : poll.calls[i].op = "updateSourceError"}
    IN  /\ Cardinality(failed) = 2 =>
             sourceTable[1].consecutiveErrors
               = poll.calls[1].errorsAtStart + 2
        /\ Cardinality(failed) = 1 =>
             sourceTable[1].consecutiveErrors <= 1

\* C28: the request that marks an item for deletion leaves the item with an
\* expiresAt that is no later than the one it had, and no later than one
\* hour from now.
C28_MarkNeverExtendsExpiry ==
  [][del.pc = "mark" =>
       \A i \in DOMAIN feedItemTable :
         feedItemTable'[i] # feedItemTable[i] =>
           /\ feedItemTable'[i].deletedSourceId # Absent
           /\ feedItemTable'[i].expiresAt <= feedItemTable[i].expiresAt
           /\ feedItemTable'[i].expiresAt <= now + ExpireSoonSeconds]_vars

\* The count a group had when it entered the run's candidate list: the one
\* getRecentStoryGroups returned, or 1 for a group the run created
CountAtEntry(g) ==
  IF \E i \in 1..Len(poll.loaded) : poll.loaded[i].id = g
    THEN poll.loaded[CHOOSE i \in 1..Len(poll.loaded) :
                       poll.loaded[i].id = g].itemCount
    ELSE 1

CandidateIds(groups) == {groups[i].id : i \in 1..Len(groups)}

\* C29: within one poll run the candidate list only grows, a group the run
\* creates joins it at once with count 1, and the k-th item of the run
\* matched to a group writes the count the group entered the list with plus
\* k, which the list then holds too.
C29_CandidateListTracksWrites ==
  [][/\ (poll.pc \in {"fetch", "existing", "item", "save", "success",
                      "errorRead", "errorWrite"} /\ poll'.pc # "done") =>
          /\ Len(poll'.groups) >= Len(poll.groups)
          /\ \A i \in 1..Len(poll.groups) :
               /\ poll'.groups[i].id = poll.groups[i].id
               /\ poll'.groups[i].canonicalTitle
                    = poll.groups[i].canonicalTitle
     /\ (poll.pc = "item" /\ poll'.pc = "save") =>
          LET g == poll'.storyGroupId
              k == poll'.matched[g]
          IN  /\ g \in CandidateIds(poll'.groups)
              /\ g \notin CandidateIds(poll.groups) =>
                   /\ k = 0
                   /\ g \notin DOMAIN storyGroupTable
              /\ g \in CandidateIds(poll.groups) =>
                   k = poll.matched[g] + 1
              /\ storyGroupTable'[g].itemCount = CountAtEntry(g) + k
              /\ \A i \in 1..Len(poll'.groups) :
                   poll'.groups[i].id = g =>
                     poll'.groups[i].itemCount = CountAtEntry(g) + k]_vars

\* The second source's item is the second one matched to a group that the
\* run created for an item of the first source
C29_SecondMatchOfCreatedGroup ==
  /\ poll.pc = "save"
  /\ poll.si = 2
  /\ poll.storyGroupId \notin CandidateIds(poll.loaded)
  /\ poll.matched[poll.storyGroupId] = 2

\* The run is past a load of the recent groups that failed: the store holds
\* a group from before the run, and nothing was loaded
LoadFailed ==
  /\ poll.pc \in {"fetch", "existing", "item", "save", "success",
                  "errorRead", "errorWrite"}
  /\ poll.loaded = <<>>
  /\ \E g \in DOMAIN storyGroupTable : g <= MaxGroups

RecentGroups ==
  {g \in DOMAIN storyGroupTable :
     /\ storyGroupTable[g].firstSeenAt # Absent
     /\ storyGroupTable[g].firstSeenAt >= now - DaysBack * SecondsPerDay}

\* C31: a load of the recent groups that succeeds gives the matcher exactly
\* the StoryGroups first seen within the last 7 days as candidates.
C31_CandidatesAreRecentGroups ==
  [][(poll.pc = "loadGroups" /\ budget' = budget) =>
       CandidateIds(poll'.groups) = RecentGroups]_vars

\* C32: in every state, every FeedItem that carries no deletion marker
\* references a StoryGroup that is in the store.
C32_LiveItemsReferenceGroups ==
  \A i \in DOMAIN feedItemTable :
    (/\ feedItemTable[i].deletedSourceId = Absent
     /\ feedItemTable[i].storyGroupId # Absent)
    => feedItemTable[i].storyGroupId \in DOMAIN storyGroupTable

\* C33: when saveFeedItem fails for an item, the StoryGroups are left as
\* they were before the item: every group's itemCount is again the number of
\* FeedItems that reference it, so that no count stays raised for the item
\* and no group created for it stays behind without a FeedItem.
C33_FailedSaveLeavesGroups ==
  [][(poll.pc = "save" /\ poll'.pc = "item" /\ budget' # budget) =>
       \A g \in DOMAIN storyGroupTable' :
         storyGroupTable'[g].itemCount = Referencing(feedItemTable', g)]_vars

\* C34: however often the marking of a source's items has been invoked, the
\* counts are those one invocation leaves: when no store request has failed,
\* a finished invocation leaves every StoryGroup's itemCount equal to the
\* number of unmarked FeedItems that reference the group.
C34_MarkingTwiceCountsOnce ==
  (del.pc = "done" /\ budget.faults = MaxFaults) =>
    \A g \in DOMAIN storyGroupTable :
      storyGroupTable[g].itemCount = Referencing(feedItemTable, g)

\* C35: once the source-deletion RPC for a source has returned success, the
\* Source table holds no record of that source, whatever a poll run that had
\* loaded the source does afterwards.
C35_DeletedSourceStaysDeleted ==
  (del.pc = "done" /\ del.kind = "mutation" /\ del.success)
  => del.sourceId \notin DOMAIN sourceTable

\* C36: once the deletion of a source has returned success and the poll run
\* that overlapped it has finished, every FeedItem of that source still in
\* the store carries the deletion marker.
C36_NoUnmarkedItemOfDeletedSource ==
  (/\ del.pc = "done" /\ del.kind = "mutation" /\ del.success
   /\ poll.pc = "done")
  => \A i \in DOMAIN feedItemTable :
       feedItemTable[i].sourceId = del.sourceId
         => feedItemTable[i].deletedSourceId # Absent

\* C37: in every state, every StoryGroup record has a canonicalTitle and a
\* firstSeenAt, as createStoryGroupInDb writes them.
C37_StoryGroupsWhole ==
  \A g \in DOMAIN storyGroupTable :
    /\ storyGroupTable[g].canonicalTitle # <<>>
    /\ storyGroupTable[g].firstSeenAt # Absent

\* The store holds a FeedItem of the source with the entry's externalId
AlreadyIngested(sourceId, e) ==
  \E i \in DOMAIN feedItemTable :
    /\ feedItemTable[i].sourceId = sourceId
    /\ feedItemTable[i].externalId = Entries[e].externalId

\* C38: while a poll run works through a feed whose entries are all
\* ingested already, no step writes to the FeedItem or the StoryGroup table,
\* and newItemsSaved does not grow.
C38_RepollWritesNothing ==
  [][(/\ poll.pc \in {"existing", "item", "save"}
      /\ \A k \in 1..Len(poll.items) :
           AlreadyIngested(poll.sources[poll.si], poll.items[k]))
     => /\ feedItemTable' = feedItemTable
        /\ storyGroupTable' = storyGroupTable
        /\ poll'.results.newItemsSaved = poll.results.newItemsSaved]_vars

\* C39: a decrement of the stream handler that fails adds one error to the
\* result and changes no StoryGroup record (the failing group is neither
\* created nor modified), and the handler goes on to the next group of the
\* batch, whose decrement is applied as usual; the invocation ends only when
\* every decrement of the batch has been issued.
C39_FailedDecrementIsLocal ==
  [][(strm.pc = "decrement" /\ strm' # strm) =>
       LET d == strm.decrements[strm.k]
       IN  /\ strm'.errors # strm.errors =>
                /\ strm'.errors = strm.errors + 1
                /\ storyGroupTable' = storyGroupTable
           /\ d.storyGroupId \notin DOMAIN storyGroupTable =>
                strm'.errors = strm.errors + 1
           /\ strm'.errors = strm.errors =>
                /\ DOMAIN storyGroupTable' = DOMAIN storyGroupTable
                /\ \A g \in DOMAIN storyGroupTable :
                     storyGroupTable'[g] =
                       IF g = d.storyGroupId
                         THEN [storyGroupTable[g] EXCEPT
                                 !.itemCount = @ - d.count]
                         ELSE storyGroupTable[g]
           /\ IF strm.k < Len(strm.decrements)
                THEN strm'.pc = "decrement" /\ strm'.k = strm.k + 1
                ELSE strm'.pc = "done"
           /\ strm'.decrements = strm.decrements
           /\ Len(strm'.issued) = strm.k]_vars

\* The decrement of the batch's first group failed because the group is
\* gone, and the decrement of its second group has been applied
C39_SecondGroupDecremented ==
  /\ strm.pc = "done"
  /\ strm.errors = 1
  /\ budget.faults = MaxFaults
  /\ Len(strm.issued) = 2
  /\ strm.issued[1].storyGroupId \notin DOMAIN storyGroupTable
  /\ strm.issued[2].storyGroupId \in DOMAIN storyGroupTable
  /\ storyGroupTable[strm.issued[2].storyGroupId].itemCount
       = 1 - strm.issued[2].count

====
